---- MODULE Spec2Model ----
(***************************************************************************)
(* FRED: Ocean Cleanup.  A model of the game's state machine driver        *)
(* (src/src/game.py), its two states (src/src/states), the player physics  *)
(* (src/src/entities/player.py) and the session container the test suite   *)
(* exercises (GameWorld, src/tests/conftest.py).                           *)
(*                                                                         *)
(* Real quantities are carried in fixed point: times in milliseconds,      *)
(* lengths, speeds and angles in thousandths (SCALE) of a pixel, pixel per *)
(* second, degree; the Player's heading in millionths of a degree, the     *)
(* product of a thousandth of a degree per second and a millisecond.       *)
(***************************************************************************)
EXTENDS Integers, Sequences, FiniteSets, TLC

VARIABLES
    pc,                 \* position of Game.run: "top", "events", "update", "draw", "exit"
    ticks,              \* iterations of the run loop started so far
    dt,                 \* this iteration's delta time, milliseconds
    running,            \* Game.running
    current_state_name, \* Game.current_state_name
    current_state,      \* Game.current_state (an object of Objects)
    flags,              \* per state object: done, next_state_name, quit
    session,            \* the GameplayState object's own fields
    calls,              \* lifecycle calls made by the last __init__/handle_events
    delivered,          \* <<event, object>> pairs of the last handle_events pass
    quit_seen,          \* handle_events found quit set on the current state
    world,              \* the GameWorld of the test suite (conftest.py)
    wlast,              \* the last operation applied to the GameWorld
    random_state        \* the generator of the random module, where it is followed

vars == <<pc, ticks, dt, running, current_state_name, current_state, flags,
          session, calls, delivered, quit_seen,
          world, wlast, random_state>>

\* random_state where the positions drawn are inputs of the model
NotFollowed == "not followed"

----------------------------------------------------------------------------
(* Bounds of the model *)

MaxTicks == 3
MaxEvents == 2
MaxBottles == 2
MaxScoreSeconds == 2
MaxMockSteps == 3
MaxPlayerSteps == 3
MaxSpawnTicks == 2
MaxGames == 3
MaxManualSteps == 2
MaxScoreCalls == 3
MaxTimerTicks == 3
MaxSpeed == 400
MaxSpin == 200

(* Program constants *)

SCALE == 10 * 10 * 10
SCREEN_WIDTH == 1280
SCREEN_HEIGHT == 720
SPAWN_MARGIN == 50
INITIAL_BOTTLES == 5
SPAWN_INTERVAL_MS == 2000

None == "None"

----------------------------------------------------------------------------
(* Game.__init__: the state table *)

MenuObj == "MainMenuState"
GameplayObj == "GameplayState"
Objects == {MenuObj, GameplayObj}

states == [n \in {"MENU", "GAMEPLAY"} |->
             IF n = "MENU" THEN MenuObj ELSE GameplayObj]

(* BaseState.__init__ *)
BaseState_init == [done |-> FALSE, next_state_name |-> None, quit |-> FALSE]

----------------------------------------------------------------------------
(* Fixed-point arithmetic standing for the floats and pygame.math.Vector2   *)

Abs(a) == IF a < 0 THEN -a ELSE a
Sgn(a) == IF a < 0 THEN -1 ELSE IF a > 0 THEN 1 ELSE 0
Max2(a, b) == IF a >= b THEN a ELSE b

\* a / b rounded toward zero (b > 0)
QuoT(a, b) == Sgn(a) * (Abs(a) \div b)

\* a / b rounded toward zero, b of either sign and not 0
DivT(a, b) == Sgn(a) * Sgn(b) * (Abs(a) \div Abs(b))

\* a * b / c rounded toward zero, without forming a * b when b is large
MulDiv(a, b, c) ==
    Sgn(a) * Sgn(b) * (Abs(a) * (Abs(b) \div c) + (Abs(a) * (Abs(b) % c)) \div c)

\* product of two fixed-point numbers
MulFix(a, b) == MulDiv(a, b, SCALE)

\* integer square root, by bisection on [lo, hi]
RECURSIVE SqrtBetween(_, _, _)
SqrtBetween(n, lo, hi) ==
    IF lo >= hi THEN lo
    ELSE LET mid == (lo + hi + 1) \div 2
         IN IF mid * mid <= n THEN SqrtBetween(n, mid, hi)
                              ELSE SqrtBetween(n, lo, mid - 1)

ISqrt(n) == SqrtBetween(n, 0, 46340)

\* Vector2.magnitude(), of a fixed-point vector
Magnitude(v) ==
    LET k == (Max2(Abs(v[1]), Abs(v[2])) \div 30000) + 1
        x == Abs(v[1]) \div k
        y == Abs(v[2]) \div k
    IN k * ISqrt(x * x + y * y)

\* math.sin of the whole degrees 0..90, in millionths
SinTable ==
    << 0, 17452, 34899, 52336, 69756, 87156, 104528,
       121869, 139173, 156434, 173648, 190809, 207912, 224951,
       241922, 258819, 275637, 292372, 309017, 325568, 342020,
       358368, 374607, 390731, 406737, 422618, 438371, 453990,
       469472, 484810, 500000, 515038, 529919, 544639, 559193,
       573576, 587785, 601815, 615661, 629320, 642788, 656059,
       669131, 681998, 694658, 707107, 719340, 731354, 743145,
       754710, 766044, 777146, 788011, 798636, 809017, 819152,
       829038, 838671, 848048, 857167, 866025, 874620, 882948,
       891007, 898794, 906308, 913545, 920505, 927184, 933580,
       939693, 945519, 951057, 956305, 961262, 965926, 970296,
       974370, 978148, 981627, 984808, 987688, 990268, 992546,
       994522, 996195, 997564, 998630, 999391, 999848, 1000000 >>

\* sine of x thousandths of a degree, 0 <= x <= 90000, in millionths: the
\* table, interpolated between whole degrees
SinQuarter(x) ==
    LET d == x \div 1000
        f == x % 1000
    IN IF f = 0 THEN SinTable[d + 1]
       ELSE SinTable[d + 1] + ((SinTable[d + 2] - SinTable[d + 1]) * f) \div 1000

\* sine and cosine of a thousandths of a degree, in millionths
SinMicro(a) ==
    LET x == a % 360000
    IN IF x <= 90000 THEN SinQuarter(x)
       ELSE IF x <= 180000 THEN SinQuarter(180000 - x)
       ELSE IF x <= 270000 THEN -SinQuarter(x - 180000)
       ELSE -SinQuarter(360000 - x)

CosMicro(a) == SinMicro(a + 90000)

\* a millionths value to the nearest thousandth
MicroToMilli(m) == Sgn(m) * ((Abs(m) + 500) \div 1000)

\* Vector2(1, 0).rotate(deg): (cos deg, sin deg)
UnitRotate(deg) == <<MicroToMilli(CosMicro(deg)), MicroToMilli(SinMicro(deg))>>

----------------------------------------------------------------------------
(* pygame.Rect *)

Rect(x, y, w, h) == [x |-> x, y |-> y, w |-> w, h |-> h]

\* rect.center = (cx, cy), the coordinates given in whole pixels
CenterAt(w, h, cx, cy) == Rect(cx - (w \div 2), cy - (h \div 2), w, h)

\* Rect.colliderect
colliderect(a, b) ==
    /\ a.x < b.x + b.w
    /\ a.y < b.y + b.h
    /\ a.x + a.w > b.x
    /\ a.y + a.h > b.y

----------------------------------------------------------------------------
(* src/src/settings.py *)

PLAYER_START_POS == <<(SCREEN_WIDTH * SCALE) \div 2, (SCREEN_HEIGHT * SCALE) \div 2>>
MAX_THRUST == 400
MAX_TORQUE == 200
LINEAR_DRAG_TENTHS == 8
ANGULAR_DRAG_TENTHS == 7
MASS == 100

PLAYER_W == 100
PLAYER_H == 50
BOTTLE_W == 30
BOTTLE_H == 50

----------------------------------------------------------------------------
(* src/src/entities/player.py *)

\* pygame.transform.rotate(original_image, angle).get_rect(), centred on the
\* position: the bounding box of the rotated 100x50 image
RotatedRect(angle, position) ==
    LET c == Abs(CosMicro(angle))
        s == Abs(SinMicro(angle))
        w == (PLAYER_W * c + PLAYER_H * s) \div 1000000
        h == (PLAYER_W * s + PLAYER_H * c) \div 1000000
    IN CenterAt(w, h, QuoT(position[1], SCALE), QuoT(position[2], SCALE))

\* 360 degrees, in millionths
FULL_TURN == 360 * SCALE * SCALE

\* An angular velocity too small for the fixed point is kept by its sign in
\* angular_velocity_sub: -1 or 1 when the float is not zero but within 1e-20
\* of it (angular_velocity is 0 then), 0 otherwise.  A float of that size is
\* absorbed by any sum with a thousandth or more, and survives alone.

\* self.angle %= 360 on floats, pre + sub the heading before the wrap: the
\* remainder takes the divisor's sign, and a negative heading within 1e-20
\* of zero, 360 added to it, rounds to 360.0
PyMod360(pre, sub) == IF pre = 0 /\ sub < 0 THEN FULL_TURN ELSE pre % FULL_TURN

\* a * b modulo m (b >= 0, m > 0), without forming a * b
RECURSIVE MulMod(_, _, _)
MulMod(a, b, m) ==
    IF b = 0 THEN 0
    ELSE (2 * MulMod(a, b \div 2, m) + (IF b % 2 = 1 THEN a % m ELSE 0)) % m

\* angular_velocity * dt in millionths of a degree, less whole turns
Turn(w, d) == IF d >= 0 THEN MulMod(w, d, FULL_TURN) ELSE MulMod(-w, -d, FULL_TURN)

\* Player.__init__(pos, groups) with settings.MASS = mass
Player_configured(pos, mass) ==
    [ position         |-> pos,
      velocity         |-> <<0, 0>>,
      acceleration     |-> <<0, 0>>,
      angle            |-> 0,
      angular_velocity |-> 0,
      angular_velocity_sub |-> 0,
      left_thrust      |-> 0,
      right_thrust     |-> 0,
      mass             |-> mass,
      rect             |-> CenterAt(PLAYER_W, PLAYER_H,
                                    QuoT(pos[1], SCALE), QuoT(pos[2], SCALE)) ]

\* Player.__init__(pos, groups)
Player_init(pos) == Player_configured(pos, MASS)

\* Player.get_input: keys = <<K_a pressed, K_d pressed>>
get_input(p, keys) ==
    [p EXCEPT !.left_thrust  = IF keys[1] THEN SCALE ELSE 0,
              !.right_thrust = IF keys[2] THEN SCALE ELSE 0]

\* torque with the thrusters exchanged
Player_torque_exchanged(p) == (p.right_thrust - p.left_thrust) * MAX_TORQUE

\* Player.update step 2: torque = (left_thrust - right_thrust) * max_torque
Player_torque(p) == (p.left_thrust - p.right_thrust) * MAX_TORQUE

\* Player.update step 3: Vector2(1, 0).rotate(-self.angle)
Player_direction(p) == UnitRotate(-QuoT(p.angle, SCALE))

\* the angular velocity with the torque added before the drag is applied
Player_spin_torque_first(p, d) ==
    MulDiv(p.angular_velocity + DivT(Player_torque(p) * d, p.mass * SCALE),
           10000 - ANGULAR_DRAG_TENTHS * d, 10000)

\* Player.update step 4, the new angular velocity:
\* angular_velocity *= 1 - angular_drag * dt; += torque * dt / mass
Player_spin(p, d) ==
    MulDiv(p.angular_velocity, 10000 - ANGULAR_DRAG_TENTHS * d, 10000)
    + DivT(Player_torque(p) * d, p.mass * SCALE)

\* Player.update steps 2-6, on the thrust intents already in p; d is dt in ms
Player_physics(p, d) ==
    LET total_thrust == (p.left_thrust + p.right_thrust) * MAX_THRUST
        direction    == Player_direction(p)
        w1    == MulDiv(p.angular_velocity, 10000 - ANGULAR_DRAG_TENTHS * d, 10000)
        s1    == p.angular_velocity_sub * Sgn(10000 - ANGULAR_DRAG_TENTHS * d)
        w2    == Player_spin(p, d)
        s2    == IF w1 = 0 /\ w2 = 0 THEN s1 ELSE 0
        angle == PyMod360(p.angle + Turn(w2, d), IF w2 = 0 THEN s2 * Sgn(d) ELSE 0)
        speed == Magnitude(p.velocity)
        force(i) == MulFix(direction[i], total_thrust)
                    - QuoT(MulFix(p.velocity[i], speed) * LINEAR_DRAG_TENTHS, 10)
        acc   == <<DivT(force(1), p.mass), DivT(force(2), p.mass)>>
        vel   == <<p.velocity[1] + MulDiv(acc[1], d, 1000),
                   p.velocity[2] + MulDiv(acc[2], d, 1000)>>
        pos   == <<p.position[1] + MulDiv(vel[1], d, 1000),
                   p.position[2] + MulDiv(vel[2], d, 1000)>>
    IN [p EXCEPT !.angular_velocity = w2,
                 !.angular_velocity_sub = s2,
                 !.angle            = angle,
                 !.acceleration     = acc,
                 !.velocity         = vel,
                 !.position         = pos,
                 !.rect             = RotatedRect(QuoT(angle, SCALE), pos)]

\* Player.update(dt) as the game calls it: the keyboard is polled first
Player_update(p, d, keys) == Player_physics(get_input(p, keys), d)

\* Player.update(dt) up to the ZeroDivisionError that
\* 'self.angular_velocity += torque * dt / self.mass' raises when mass is 0:
\* the keyboard polled and the angular drag applied
Player_update_raising(p, d, keys) ==
    LET q == get_input(p, keys)
    IN [q EXCEPT
          !.angular_velocity = MulDiv(@, 10000 - ANGULAR_DRAG_TENTHS * d, 10000),
          !.angular_velocity_sub = @ * Sgn(10000 - ANGULAR_DRAG_TENTHS * d)]

----------------------------------------------------------------------------
(* src/src/entities/bottle.py *)

\* Bottle.__init__(pos, groups): the 30x50 rect centred on pos (whole pixels)
Bottle_rect(pos) == CenterAt(BOTTLE_W, BOTTLE_H, pos[1], pos[2])

----------------------------------------------------------------------------
(* src/src/states/gameplay.py *)

\* positions random.randint(50, W - 50), random.randint(50, H - 50) may draw:
\* one a bottle's half-width past the right edge of the player's first rect,
\* and the far corner
SpawnPoints ==
    { <<(SCREEN_WIDTH \div 2) + (PLAYER_W \div 2) + (BOTTLE_W \div 2), SCREEN_HEIGHT \div 2>>,
      <<SCREEN_WIDTH - SPAWN_MARGIN, SCREEN_HEIGHT - SPAWN_MARGIN>> }

\* the arguments of random.randint in spawn_bottle, with no margin
spawn_x_range_no_margin == [lo |-> 0, hi |-> SCREEN_WIDTH]

\* the arguments of the two random.randint calls of spawn_bottle
spawn_x_range == [lo |-> SPAWN_MARGIN, hi |-> SCREEN_WIDTH - SPAWN_MARGIN]
spawn_y_range == [lo |-> SPAWN_MARGIN, hi |-> SCREEN_HEIGHT - SPAWN_MARGIN]

\* the extreme positions spawn_bottle may draw: randint(lo, hi) returns lo
\* and hi as well as what lies between
SpawnCorners ==
    { <<x, y>> : x \in {spawn_x_range.lo, spawn_x_range.hi},
                 y \in {spawn_y_range.lo, spawn_y_range.hi} }

\* a sprite group of bottles: how many bottles of the group stand at each point
NoBottles == [pt \in SpawnPoints \cup SpawnCorners |-> 0]

RECURSIVE SumCounts(_, _)
SumCounts(b, pts) ==
    IF pts = {} THEN 0
    ELSE LET pt == CHOOSE q \in pts : TRUE
         IN b[pt] + SumCounts(b, pts \ {pt})

\* len(group)
GroupLen(b) == SumCounts(b, DOMAIN b)

\* GameplayState.__init__ (spawned: spawn_bottle calls since the last startup)
GameplayState_init ==
    [ player |-> <<>>, bottles |-> NoBottles, score |-> 0,
      bottle_spawn_timer |-> 0, spawned |-> 0 ]

\* Bottle(pos, [self.bottles]): n more bottles of the group b stand at pt
AddBottle(b, pt, n) ==
    IF pt \in DOMAIN b THEN [b EXCEPT ![pt] = @ + n] ELSE b @@ (pt :> n)

\* spawn_bottle creating two bottles
spawn_bottle_twice(s, pt) ==
    [s EXCEPT !.bottles = AddBottle(@, pt, 2), !.spawned = @ + 2]

\* GameplayState.spawn_bottle, pt the position the random module draws
spawn_bottle(s, pt) ==
    [s EXCEPT !.bottles = AddBottle(@, pt, 1), !.spawned = @ + 1]

RECURSIVE SpawnEach(_, _)
SpawnEach(s, draws) ==
    IF draws = <<>> THEN s
    ELSE SpawnEach(spawn_bottle(s, Head(draws)), Tail(draws))

\* startup leaving the score of the last session in place
GameplayState_startup_keeps_score(s, draws) ==
    SpawnEach([ player |-> <<Player_init(PLAYER_START_POS)>>,
                bottles |-> NoBottles, score |-> s.score,
                bottle_spawn_timer |-> 0, spawned |-> 0 ], draws)

\* GameplayState.startup, draws the INITIAL_BOTTLES positions drawn
GameplayState_startup(s, draws) ==
    SpawnEach([ player |-> <<Player_init(PLAYER_START_POS)>>,
                bottles |-> NoBottles, score |-> 0,
                bottle_spawn_timer |-> 0, spawned |-> 0 ], draws)

\* spritecollide leaving the bottles it found in the group
spritecollide_nokill(rect, b, dokill) ==
    LET hit(pt) == colliderect(rect, Bottle_rect(pt))
    IN [ collected |-> SumCounts(b, {pt \in DOMAIN b : hit(pt)}),
         bottles   |-> b ]

\* pygame.sprite.spritecollide(player, bottles, dokill): the number of
\* bottles whose rect overlaps the player's, and the group afterwards
spritecollide(rect, b, dokill) ==
    LET hit(pt) == colliderect(rect, Bottle_rect(pt))
    IN [ collected |-> SumCounts(b, {pt \in DOMAIN b : hit(pt)}),
         bottles   |-> [pt \in DOMAIN b |->
                          IF dokill /\ hit(pt) THEN 0 ELSE b[pt]] ]

\* update letting the spawn timer run on after a spawn
GameplayState_update_no_reset(s, d, keys, pt) ==
    LET p1    == Player_update(s.player[1], d, keys)
        col   == spritecollide(p1.rect, s.bottles, TRUE)
        s1    == [s EXCEPT !.player = <<p1>>,
                           !.bottles = col.bottles,
                           !.score = @ + col.collected,
                           !.bottle_spawn_timer = @ + d]
    IN IF s1.bottle_spawn_timer >= SPAWN_INTERVAL_MS
       THEN spawn_bottle(s1, pt)
       ELSE s1

\* update carrying the time beyond the interval into the next interval
GameplayState_update_carries_excess(s, d, keys, pt) ==
    LET p1    == Player_update(s.player[1], d, keys)
        col   == spritecollide(p1.rect, s.bottles, TRUE)
        s1    == [s EXCEPT !.player = <<p1>>,
                           !.bottles = col.bottles,
                           !.score = @ + col.collected,
                           !.bottle_spawn_timer = @ + d]
    IN IF s1.bottle_spawn_timer >= SPAWN_INTERVAL_MS
       THEN [spawn_bottle(s1, pt) EXCEPT !.bottle_spawn_timer = @ - SPAWN_INTERVAL_MS]
       ELSE s1

\* GameplayState.update(dt), keys the keyboard state, pt the position drawn
\* if a bottle is spawned
GameplayState_update(s, d, keys, pt) ==
    LET p1    == Player_update(s.player[1], d, keys)
        col   == spritecollide(p1.rect, s.bottles, TRUE)
        s1    == [s EXCEPT !.player = <<p1>>,
                           !.bottles = col.bottles,
                           !.score = @ + col.collected,
                           !.bottle_spawn_timer = @ + d]
    IN IF s1.bottle_spawn_timer >= SPAWN_INTERVAL_MS
       THEN [spawn_bottle(s1, pt) EXCEPT !.bottle_spawn_timer = 0]
       ELSE s1

\* handle_event asking the driver to quit on ESCAPE
GameplayState_handle_event_quits(f, ev) ==
    IF ev = "ESCAPE" THEN [f EXCEPT !.quit = TRUE] ELSE f

\* GameplayState.handle_event on the state's flags
GameplayState_handle_event(f, ev) ==
    IF ev = "ESCAPE"
    THEN [f EXCEPT !.done = TRUE, !.next_state_name = "MENU"]
    ELSE f

----------------------------------------------------------------------------
(* src/src/states/menu.py *)

\* handle_event setting done without naming the next state
MainMenuState_handle_event_no_name(f, ev) ==
    IF ev = "RETURN" THEN [f EXCEPT !.done = TRUE] ELSE f

\* MainMenuState.handle_event on the state's flags
MainMenuState_handle_event(f, ev) ==
    IF ev = "RETURN"
    THEN [f EXCEPT !.done = TRUE, !.next_state_name = "GAMEPLAY"]
    ELSE f

----------------------------------------------------------------------------
(* src/src/game.py *)

\* the Game object's fields, with the call and delivery records
Game ==
    [ running            |-> running,
      current_state_name |-> current_state_name,
      current_state      |-> current_state,
      flags              |-> flags,
      session            |-> session,
      calls              |-> calls,
      delivered          |-> delivered,
      quit_seen          |-> quit_seen ]

Call(op, obj, data, prev) == [op |-> op, obj |-> obj, data |-> data, prev |-> prev]

\* BaseState.cleanup (neither state overrides it): the handoff payload
cleanup(obj) == None

\* <state>.startup(persistent_data, previous_state) on g.current_state
startup(g, persistent_data, previous_state, draws) ==
    [g EXCEPT
       !.calls = Append(@, Call("startup", g.current_state,
                                persistent_data, previous_state)),
       !.session = IF g.current_state = GameplayObj
                   THEN GameplayState_startup(@, draws)
                   ELSE @]

\* <state>.handle_event(event) on the object's flags
handle_event(obj, f, ev) ==
    IF obj = MenuObj THEN MainMenuState_handle_event(f, ev)
                     ELSE GameplayState_handle_event(f, ev)

\* flip_state taking the previous name after the switch, and flip_state
\* ignoring an unregistered name
flip_state_late_previous(g, draws) ==
    LET next == g.flags[g.current_state].next_state_name
    IN IF next \in DOMAIN states
       THEN LET persistent_data == cleanup(g.current_state)
                g1 == [g EXCEPT
                         !.calls = Append(@, Call("cleanup", g.current_state,
                                                  persistent_data, None)),
                         !.current_state_name = next,
                         !.current_state = states[next]]
            IN startup(g1, persistent_data, g1.current_state_name, draws)
       ELSE [g EXCEPT !.running = FALSE]

flip_state_silent_fallback(g, draws) ==
    LET next == g.flags[g.current_state].next_state_name
    IN IF next \in DOMAIN states
       THEN LET persistent_data == cleanup(g.current_state)
                previous_state_name == g.current_state_name
                g1 == [g EXCEPT
                         !.calls = Append(@, Call("cleanup", g.current_state,
                                                  persistent_data, None)),
                         !.current_state_name = next,
                         !.current_state = states[next]]
            IN startup(g1, persistent_data, previous_state_name, draws)
       ELSE g

\* Game.flip_state
flip_state(g, draws) ==
    LET next == g.flags[g.current_state].next_state_name
    IN IF next \in DOMAIN states
       THEN LET persistent_data == cleanup(g.current_state)
                previous_state_name == g.current_state_name
                g1 == [g EXCEPT
                         !.calls = Append(@, Call("cleanup", g.current_state,
                                                  persistent_data, None)),
                         !.current_state_name = next,
                         !.current_state = states[next]]
            IN startup(g1, persistent_data, previous_state_name, draws)
       ELSE [g EXCEPT !.running = FALSE]

\* the for loop of Game.handle_events over pygame.event.get()
RECURSIVE DeliverEvents(_, _)
DeliverEvents(g, evs) ==
    IF evs = <<>> THEN g
    ELSE LET ev == Head(evs)
             g1 == IF ev = "QUIT"
                   THEN [g EXCEPT !.running = FALSE]
                   ELSE [g EXCEPT
                           !.flags[g.current_state] =
                               handle_event(g.current_state, @, ev),
                           !.delivered = Append(@, <<ev, g.current_state>>)]
         IN DeliverEvents(g1, Tail(evs))

\* handle_events checking for a transition after every event
RECURSIVE DeliverFlipping(_, _, _)
DeliverFlipping(g, evs, draws) ==
    IF evs = <<>> THEN g
    ELSE LET g1 == DeliverEvents(g, <<Head(evs)>>)
             g2 == IF g1.flags[g1.current_state].done
                   THEN flip_state(g1, draws)
                   ELSE g1
         IN DeliverFlipping(g2, Tail(evs), draws)

handle_events_flip_per_event(g, evs, draws) ==
    LET g1 == DeliverFlipping(g, evs, draws)
    IN IF g1.flags[g1.current_state].quit
       THEN [g1 EXCEPT !.running = FALSE, !.quit_seen = TRUE]
       ELSE g1

\* Game.handle_events
handle_events(g, evs, draws) ==
    LET g1 == DeliverEvents(g, evs)
        g2 == IF g1.flags[g1.current_state].quit
              THEN [g1 EXCEPT !.running = FALSE, !.quit_seen = TRUE]
              ELSE g1
    IN IF g2.flags[g2.current_state].done
       THEN flip_state(g2, draws)
       ELSE g2

\* Game.update updating the gameplay session whichever state is current
Game_update_every_state(g, d, keys, pt) ==
    IF g.session.player # <<>>
    THEN [g EXCEPT !.session = GameplayState_update(@, d, keys, pt)]
    ELSE g

\* Game.update: current_state.update(dt) (MainMenuState.update does nothing)
Game_update(g, d, keys, pt) ==
    IF g.current_state = GameplayObj
    THEN [g EXCEPT !.session = GameplayState_update(@, d, keys, pt)]
    ELSE g

----------------------------------------------------------------------------
(* Inputs *)

Events == {"QUIT", "RETURN", "ESCAPE", "OTHER"}

\* what pygame.event.get() may return in one pass
EventLists == UNION {[1..n -> Events] : n \in 0..MaxEvents}

\* what clock.tick(FPS) / 1000.0 may be, in milliseconds: a frame, a long
\* frame, a stall
DTs == {17, 2000}

\* the keyboard: neither thruster key, A alone, A and D
KeyStates == {<<FALSE, FALSE>>, <<TRUE, FALSE>>, <<TRUE, TRUE>>}

Repeat(pt, n) == [i \in 1..n |-> pt]

\* the INITIAL_BOTTLES positions drawn at startup, up to their order
InitialDraws ==
    LET near == CHOOSE pt \in SpawnPoints : pt[1] < SCREEN_WIDTH - SPAWN_MARGIN
        far  == CHOOSE pt \in SpawnPoints : pt[1] = SCREEN_WIDTH - SPAWN_MARGIN
    IN { Repeat(near, a) \o Repeat(far, INITIAL_BOTTLES - a) :
           a \in 0..INITIAL_BOTTLES }

\* whether a pass over evs calls GameplayState.startup, which alone draws
EntersGameplay(g, evs) ==
    LET probe == handle_events(g, evs, <<>>)
    IN \E i \in 1..Len(probe.calls) :
          probe.calls[i].op = "startup" /\ probe.calls[i].obj = GameplayObj

----------------------------------------------------------------------------
(* src/tests/conftest.py: MockBottle, MockPlayer, GameWorld, game_factory *)

WORLD_W == 800
WORLD_H == 600
MOCK_PLAYER_W == 40
MOCK_PLAYER_H == 60
MOCK_BOTTLE_SIZE == 20

\* collect handing an already collected bottle back uncollected
collect_toggle(b) ==
    IF ~b.collected
    THEN [bottle |-> [b EXCEPT !.collected = TRUE], result |-> TRUE]
    ELSE [bottle |-> [b EXCEPT !.collected = FALSE], result |-> FALSE]

\* MockBottle.collect: the bottle afterwards and the value returned
collect(b) ==
    IF ~b.collected
    THEN [bottle |-> [b EXCEPT !.collected = TRUE], result |-> TRUE]
    ELSE [bottle |-> b, result |-> FALSE]

\* the loop body counting every overlapping bottle, collected or not
CheckBottle_recount(w, i) ==
    LET b == w.bottles[i]
    IN IF colliderect(w.player.rect, b.rect)
       THEN LET w2 == [w EXCEPT !.bottles[i].collected = TRUE,
                                !.bottles_remaining = @ - 1]
            IN IF w2.bottles_remaining = 0
               THEN [w2 EXCEPT !.state = "END_SCREEN"]
               ELSE w2
       ELSE w

\* the loop body ending the round at every collection
CheckBottle_ends_at_any(w, i) ==
    LET b == w.bottles[i]
    IN IF ~b.collected /\ colliderect(w.player.rect, b.rect)
       THEN LET c  == collect(b)
                w1 == [w EXCEPT !.bottles[i] = c.bottle]
            IN IF c.result
               THEN [w1 EXCEPT !.bottles_remaining = @ - 1, !.state = "END_SCREEN"]
               ELSE w1
       ELSE w

\* the body of the for loop of GameWorld.check_collisions, for bottle i
CheckBottle(w, i) ==
    LET b == w.bottles[i]
    IN IF ~b.collected /\ colliderect(w.player.rect, b.rect)
       THEN LET c  == collect(b)
                w1 == [w EXCEPT !.bottles[i] = c.bottle]
            IN IF c.result
               THEN LET w2 == [w1 EXCEPT !.bottles_remaining = @ - 1]
                    IN IF w2.bottles_remaining = 0
                       THEN [w2 EXCEPT !.state = "END_SCREEN"]
                       ELSE w2
               ELSE w1
       ELSE w

RECURSIVE CheckFrom(_, _)
CheckFrom(w, i) ==
    IF i > Len(w.bottles) THEN w ELSE CheckFrom(CheckBottle(w, i), i + 1)

\* check_collisions stopping at the first bottle it collects
check_collisions_capped(w) ==
    LET hits == {i \in 1..Len(w.bottles) :
                   ~w.bottles[i].collected
                   /\ colliderect(w.player.rect, w.bottles[i].rect)}
    IN IF hits = {} THEN w
       ELSE CheckBottle(w, CHOOSE i \in hits : \A j \in hits : i <= j)

\* GameWorld.check_collisions
check_collisions(w) == CheckFrom(w, 1)

\* update_score counting an active pair of thrusters once
update_score_either(w, d) ==
    IF w.player.left_thrust_active \/ w.player.right_thrust_active
    THEN [w EXCEPT !.score = @ + d]
    ELSE w

\* update_score keeping only the last call's contribution
update_score_last_only(w, d) ==
    [w EXCEPT !.score = (IF w.player.left_thrust_active THEN d ELSE 0)
                        + (IF w.player.right_thrust_active THEN d ELSE 0)]

\* GameWorld.update_score(dt), d in milliseconds and the score in milliseconds
update_score(w, d) ==
    LET w1 == IF w.player.left_thrust_active THEN [w EXCEPT !.score = @ + d] ELSE w
    IN IF w1.player.right_thrust_active THEN [w1 EXCEPT !.score = @ + d] ELSE w1

\* MockPlayer's defaults: thrust_power, turn_rate
MOCK_THRUST_POWER == 100
MOCK_TURN_RATE == 180

\* drag_coefficient ** dt, 0.95 ** (d / 1000), in millionths, for the dt
\* values used
DragFactorMicro(d) ==
    CASE d = 0    -> 1000000
      [] d = 100  -> 994884
      [] d = 1000 -> 950000

\* v * f / 1000000 for a factor f in millionths, f <= 1000000
MulMicro(v, f) ==
    MulDiv(f \div 1000, v, 1000) + QuoT(MulDiv(f % 1000, v, 1000), 1000)

\* Vector2(0, -power).rotate(angle), power in px/s^2
ThrustVector(power, angle) ==
    << QuoT(power * SinMicro(angle), 1000), -QuoT(power * CosMicro(angle), 1000) >>

\* velocity += acceleration * dt
Accelerate(p, acc, d) ==
    [p EXCEPT !.velocity = << @[1] + MulDiv(acc[1], d, 1000),
                              @[2] + MulDiv(acc[2], d, 1000) >>]

\* MockPlayer.apply_thrust(left, right, dt)
apply_thrust(p, left, right, d) ==
    LET p1 == [p EXCEPT !.left_thrust_active = left, !.right_thrust_active = right]
    IN IF left /\ right
       THEN Accelerate(p1, ThrustVector(MOCK_THRUST_POWER, p1.angle), d)
       ELSE IF left
       THEN LET p2 == [p1 EXCEPT !.angle = @ + MOCK_TURN_RATE * d]
            IN Accelerate(p2, ThrustVector((MOCK_THRUST_POWER * 3) \div 10, p2.angle), d)
       ELSE IF right
       THEN LET p2 == [p1 EXCEPT !.angle = @ - MOCK_TURN_RATE * d]
            IN Accelerate(p2, ThrustVector((MOCK_THRUST_POWER * 3) \div 10, p2.angle), d)
       ELSE p1

\* MockPlayer.update: drag and position update
MockIntegrate(p, d) ==
    LET vel == << MulMicro(p.velocity[1], DragFactorMicro(d)),
                  MulMicro(p.velocity[2], DragFactorMicro(d)) >>
    IN [p EXCEPT !.velocity = vel,
                 !.position = << @[1] + MulDiv(vel[1], d, 1000),
                                 @[2] + MulDiv(vel[2], d, 1000) >>]

\* the least and greatest position MockPlayer.update allows on axis i
\* (1 = x, 2 = y): the bounds inset by half the rect
AxisMin(p, bounds, i) ==
    IF i = 1 THEN (bounds.x + (p.rect.w \div 2)) * SCALE
             ELSE (bounds.y + (p.rect.h \div 2)) * SCALE

AxisMax(p, bounds, i) ==
    IF i = 1 THEN (bounds.x + bounds.w - (p.rect.w \div 2)) * SCALE
             ELSE (bounds.y + bounds.h - (p.rect.h \div 2)) * SCALE

\* boundary collision stopping the vehicle on both axes
ClampAxis_stops_all(p, bounds, i) ==
    IF p.position[i] < AxisMin(p, bounds, i)
    THEN [p EXCEPT !.position[i] = AxisMin(p, bounds, i), !.velocity = <<0, 0>>]
    ELSE IF p.position[i] > AxisMax(p, bounds, i)
    THEN [p EXCEPT !.position[i] = AxisMax(p, bounds, i), !.velocity = <<0, 0>>]
    ELSE p

\* MockPlayer.update: boundary collision on axis i
ClampAxis(p, bounds, i) ==
    IF p.position[i] < AxisMin(p, bounds, i)
    THEN [p EXCEPT !.position[i] = AxisMin(p, bounds, i), !.velocity[i] = 0]
    ELSE IF p.position[i] > AxisMax(p, bounds, i)
    THEN [p EXCEPT !.position[i] = AxisMax(p, bounds, i), !.velocity[i] = 0]
    ELSE p

\* MockPlayer.update(dt, world_bounds)
MockPlayer_update(p, d, bounds) ==
    LET q == ClampAxis(ClampAxis(MockIntegrate(p, d), bounds, 1), bounds, 2)
    IN [q EXCEPT !.rect = CenterAt(@.w, @.h, QuoT(q.position[1], SCALE),
                                             QuoT(q.position[2], SCALE))]

\* the tests' way of switching thrusters:
\* player.left_thrust_active = left; player.right_thrust_active = right
set_thrust(w, left, right) ==
    [w EXCEPT !.player.left_thrust_active = left,
              !.player.right_thrust_active = right]

\* MockBottle(position, rect) as game_factory builds it, pos in whole pixels
MockBottle_init(pos) ==
    [ position  |-> <<pos[1] * SCALE, pos[2] * SCALE>>,
      rect      |-> Rect(pos[1] - (MOCK_BOTTLE_SIZE \div 2),
                         pos[2] - (MOCK_BOTTLE_SIZE \div 2),
                         MOCK_BOTTLE_SIZE, MOCK_BOTTLE_SIZE),
      collected |-> FALSE ]

\* MockPlayer as game_factory builds it, pos in whole pixels
MockPlayer_init(pos, angle) ==
    [ position |-> <<pos[1] * SCALE, pos[2] * SCALE>>,
      velocity |-> <<0, 0>>,
      angle    |-> angle,
      rect     |-> CenterAt(MOCK_PLAYER_W, MOCK_PLAYER_H, pos[1], pos[2]),
      left_thrust_active  |-> FALSE,
      right_thrust_active |-> FALSE ]

\* game_factory._create_game(world_size, player_pos, player_angle,
\* bottle_positions), the positions given
game_factory(player_pos, player_angle, bottle_positions) ==
    [ player  |-> MockPlayer_init(player_pos, player_angle),
      bottles |-> [i \in 1..Len(bottle_positions) |->
                     MockBottle_init(bottle_positions[i])],
      world_bounds |-> Rect(0, 0, WORLD_W, WORLD_H),
      score |-> 0,
      bottles_remaining |-> Len(bottle_positions),
      state |-> "START_SCREEN" ]

\* the tests' way of putting the player somewhere:
\* player.position = Vector2(pos); player.rect.center = pos
place_player(w, pos) ==
    [w EXCEPT !.player.position = <<pos[1] * SCALE, pos[2] * SCALE>>,
              !.player.rect = CenterAt(@.w, @.h, pos[1], pos[2])]

\* the tests' begin event: game.state = "PLAYING"
begin(w) == [w EXCEPT !.state = "PLAYING"]

\* positions the tests use for the player and for bottles: two within one
\* player rect of each other, the middle of the world, a spawn-margin corner
WorldPoints == { <<100, 100>>, <<110, 100>>, <<WORLD_W \div 2, WORLD_H \div 2>>,
                 <<SPAWN_MARGIN, WORLD_H - SPAWN_MARGIN>> }

BottleLists == UNION {[1..n -> WorldPoints] : n \in 0..MaxBottles}

\* no GameWorld has been built
NoWorld == game_factory(<<0, 0>>, 0, <<>>)

----------------------------------------------------------------------------
(* The game: Game.__init__ and Game.run *)

SetGame(g) ==
    /\ running' = g.running
    /\ current_state_name' = g.current_state_name
    /\ current_state' = g.current_state
    /\ flags' = g.flags
    /\ session' = g.session
    /\ calls' = g.calls
    /\ delivered' = g.delivered
    /\ quit_seen' = g.quit_seen

\* the Game with the records of the last event pass cleared: calls, delivered
\* and quit_seen describe one pass and are cleared by the step after it
PassStart == [Game EXCEPT !.calls = <<>>, !.delivered = <<>>, !.quit_seen = FALSE]

\* Game.__init__
Init ==
    /\ pc = "top"
    /\ ticks = 0
    /\ dt = 0
    /\ running = TRUE
    /\ current_state_name = "MENU"
    /\ current_state = states["MENU"]
    /\ flags = [o \in Objects |-> BaseState_init]
    /\ session = GameplayState_init
    /\ calls = <<Call("startup", MenuObj, None, None)>>
    /\ delivered = <<>>
    /\ quit_seen = FALSE
    /\ world = NoWorld
    /\ wlast = "none"
    /\ random_state = NotFollowed

\* Game.run: the loop test and dt = clock.tick(FPS) / 1000.0
RunTickWith(dts) ==
    /\ pc = "top"
    /\ running
    /\ ticks < MaxTicks
    /\ \E d \in dts : dt' = d
    /\ ticks' = ticks + 1
    /\ pc' = "events"
    /\ UNCHANGED <<running, current_state_name, current_state, flags, session,
                   calls, delivered, quit_seen, world, wlast, random_state>>

RunTick == RunTickWith(DTs)

\* Game.run: self.handle_events()
HandleEvents ==
    /\ pc = "events"
    /\ \E evs \in EventLists :
         \E draws \in IF EntersGameplay(PassStart, evs) THEN InitialDraws ELSE {<<>>} :
            SetGame(handle_events(PassStart, evs, draws))
    /\ pc' = "update"
    /\ UNCHANGED <<ticks, dt, world, wlast, random_state>>

\* Game.run: self.update(dt)
UpdateWith(keystates) ==
    /\ pc = "update"
    /\ \E keys \in keystates, pt \in SpawnPoints :
         SetGame(Game_update(PassStart, dt, keys, pt))
    /\ pc' = "draw"
    /\ UNCHANGED <<ticks, dt, world, wlast, random_state>>

Update == UpdateWith(KeyStates)

\* Game.run: self.draw() and pygame.display.flip()
Draw ==
    /\ pc = "draw"
    /\ pc' = "top"
    /\ UNCHANGED <<ticks, dt, running, current_state_name, current_state, flags,
                   session, calls, delivered, quit_seen,
          world, wlast, random_state>>

\* Game.run: the loop is left; pygame.quit() and sys.exit()
RunExit ==
    /\ pc = "top"
    /\ ~running
    /\ pc' = "exit"
    /\ UNCHANGED <<ticks, dt, running, current_state_name, current_state, flags,
                   session, calls, delivered, quit_seen,
          world, wlast, random_state>>

Next == RunTick \/ HandleEvents \/ Update \/ Draw \/ RunExit

Spec == Init /\ [][Next]_vars

----------------------------------------------------------------------------
(* A GameWorld driven as the test suite drives it *)

GameVars == <<pc, ticks, dt, running, current_state_name, current_state, flags,
              session, calls, delivered, quit_seen, random_state>>

\* game_factory(player_pos=..., bottle_positions=...); no Game is running
InitWorld ==
    /\ pc = "none"
    /\ ticks = 0
    /\ dt = 0
    /\ running = FALSE
    /\ current_state_name = "MENU"
    /\ current_state = states["MENU"]
    /\ flags = [o \in Objects |-> BaseState_init]
    /\ session = GameplayState_init
    /\ calls = <<>>
    /\ delivered = <<>>
    /\ quit_seen = FALSE
    /\ \E pos \in WorldPoints, bottle_positions \in BottleLists :
          world = game_factory(pos, 0, bottle_positions)
    /\ wlast = "game_factory"
    /\ random_state = NotFollowed

WorldBuilt == wlast # "none"

PlacePlayer ==
    /\ WorldBuilt
    /\ \E pos \in WorldPoints : world' = place_player(world, pos)
    /\ wlast' = "place_player"
    /\ UNCHANGED GameVars

Begin ==
    /\ WorldBuilt
    /\ world.state = "START_SCREEN"
    /\ world' = begin(world)
    /\ wlast' = "begin"
    /\ UNCHANGED GameVars

CheckCollisions ==
    /\ WorldBuilt
    /\ world' = check_collisions(world)
    /\ wlast' = "check_collisions"
    /\ UNCHANGED GameVars

NextWorld == PlacePlayer \/ Begin \/ CheckCollisions

SpecWorld == InitWorld /\ [][NextWorld]_vars

----------------------------------------------------------------------------
(* Scoring on a GameWorld, as src/tests/test_scoring.py drives it *)

\* the dt values the scoring tests pass, in milliseconds (0 included)
ScoreDTs == {0, 200, 300, 500}

WorldOnly == <<pc, ticks, running, current_state_name, current_state, flags,
               session, calls, delivered, quit_seen, random_state>>

SetThrust ==
    /\ WorldBuilt
    /\ \E left \in BOOLEAN, right \in BOOLEAN :
          world' = set_thrust(world, left, right)
    /\ wlast' = "set_thrust"
    /\ UNCHANGED GameVars

UpdateScore ==
    /\ WorldBuilt
    /\ world.score < MaxScoreSeconds * SCALE
    /\ \E d \in ScoreDTs :
          /\ dt' = d
          /\ world' = update_score(world, d)
    /\ wlast' = "update_score"
    /\ UNCHANGED WorldOnly

NextScore == SetThrust \/ UpdateScore \/ CheckCollisions

\* game_factory(player_pos=(100, 100), bottle_positions=...): no bottle, a
\* bottle under the player, a bottle away from it
ScoreBottleLists == { <<>>, << <<100, 100>> >>, << <<WORLD_W \div 2, WORLD_H \div 2>> >> }

InitScore ==
    /\ pc = "none"
    /\ ticks = 0
    /\ dt = 0
    /\ running = FALSE
    /\ current_state_name = "MENU"
    /\ current_state = states["MENU"]
    /\ flags = [o \in Objects |-> BaseState_init]
    /\ session = GameplayState_init
    /\ calls = <<>>
    /\ delivered = <<>>
    /\ quit_seen = FALSE
    /\ \E bottle_positions \in ScoreBottleLists :
          world = game_factory(<<100, 100>>, 0, bottle_positions)
    /\ wlast = "game_factory"
    /\ random_state = NotFollowed

SpecScore == InitScore /\ [][NextScore]_vars

----------------------------------------------------------------------------
(* A MockPlayer driven as src/tests/test_physics.py drives it *)

\* the dt values passed to apply_thrust and update, in milliseconds
MockDTs == {100, 1000}

\* player.position and player.velocity as the tests arrange them (px, px/s):
\* near each wall and moving into it, near a corner, the middle at a speed
\* that crosses the world in one step, the middle at rest
MockStarts ==
    { << <<30, 300>>,  <<-100, 50>> >>,
      << <<770, 300>>, <<100, -50>> >>,
      << <<400, 30>>,  <<50, -100>> >>,
      << <<400, 570>>, <<-50, 100>> >>,
      << <<30, 30>>,   <<-100, -100>> >>,
      << <<400, 300>>, <<5000, 0>> >>,
      << <<400, 300>>, <<0, 0>> >> }

InitMock ==
    /\ pc = "none"
    /\ ticks = 0
    /\ dt = 0
    /\ running = FALSE
    /\ current_state_name = "MENU"
    /\ current_state = states["MENU"]
    /\ flags = [o \in Objects |-> BaseState_init]
    /\ session = GameplayState_init
    /\ calls = <<>>
    /\ delivered = <<>>
    /\ quit_seen = FALSE
    /\ \E st \in MockStarts :
          world = [place_player(game_factory(<<WORLD_W \div 2, WORLD_H \div 2>>, 0, <<>>), st[1])
                     EXCEPT !.player.velocity = <<st[2][1] * SCALE, st[2][2] * SCALE>>]
    /\ wlast = "game_factory"
    /\ random_state = NotFollowed

MockVars == <<pc, running, current_state_name, current_state, flags,
              session, calls, delivered, quit_seen, random_state>>

MockApplyThrust ==
    /\ ticks < MaxMockSteps
    /\ \E left \in BOOLEAN, right \in BOOLEAN, d \in MockDTs :
          /\ dt' = d
          /\ world' = [world EXCEPT !.player = apply_thrust(@, left, right, d)]
    /\ ticks' = ticks + 1
    /\ wlast' = "apply_thrust"
    /\ UNCHANGED MockVars

MockUpdate ==
    /\ ticks < MaxMockSteps
    /\ \E d \in MockDTs :
          /\ dt' = d
          /\ world' = [world EXCEPT
                         !.player = MockPlayer_update(@, d, world.world_bounds)]
    /\ ticks' = ticks + 1
    /\ wlast' = "update"
    /\ UNCHANGED MockVars

NextMock == MockApplyThrust \/ MockUpdate

SpecMock == InitMock /\ [][NextMock]_vars

----------------------------------------------------------------------------
(* A Player on its own: the sprite GameplayState.startup creates, updated  *)
(* frame after frame                                                       *)

\* what update may be passed as dt, in milliseconds: a frame, a long frame,
\* a stall of the process (what clock.tick(FPS) / 1000.0 may be), and the
\* zero and the negative dt of a caller that has no new frame to report
PlayerDTs == {-17, 0, 17, 2000, 10000}

\* the keyboard: every combination of the A and D keys
AllKeyStates == {<<a, d>> : a \in BOOLEAN, d \in BOOLEAN}

\* the speeds the fixed-point arithmetic can carry through one more update
InRange(p) ==
    /\ Abs(p.velocity[1]) <= MaxSpeed * SCALE
    /\ Abs(p.velocity[2]) <= MaxSpeed * SCALE
    /\ Abs(p.angular_velocity) <= MaxSpin * SCALE

InitPlayer ==
    /\ pc = "player"
    /\ ticks = 0
    /\ dt = 0
    /\ running = TRUE
    /\ current_state_name = "GAMEPLAY"
    /\ current_state = states["GAMEPLAY"]
    /\ flags = [o \in Objects |-> BaseState_init]
    /\ session = [GameplayState_init EXCEPT !.player = <<Player_init(PLAYER_START_POS)>>]
    /\ calls = <<>>
    /\ delivered = <<>>
    /\ quit_seen = FALSE
    /\ world = NoWorld
    /\ wlast = "none"
    /\ random_state = NotFollowed

PlayerUpdate ==
    /\ pc = "player"
    /\ ticks < MaxPlayerSteps
    /\ InRange(session.player[1])
    /\ \E keys \in AllKeyStates, d \in PlayerDTs :
          /\ dt' = d
          /\ session' = [session EXCEPT !.player = <<Player_update(@[1], d, keys)>>]
    /\ ticks' = ticks + 1
    /\ UNCHANGED <<pc, running, current_state_name, current_state, flags,
                   calls, delivered, quit_seen, world, wlast, random_state>>

NextPlayer == PlayerUpdate

SpecPlayer == InitPlayer /\ [][NextPlayer]_vars

----------------------------------------------------------------------------
(* Scoring with any dt: test_negative_delta_time_protection assigns the    *)
(* score and a thruster flag and passes a negative dt to update_score      *)

\* the dt values passed, in milliseconds: -1.0 s as in the test, a negative
\* frame time, zero and positive ones
AnyScoreDTs == {-1000, -200, 0, 200, 500}

\* game.score as the tests assign it before the call
AssignedScores == {0, 10 * SCALE}

\* game_factory(), then game.score = ...
InitAnyScore ==
    /\ pc = "none"
    /\ ticks = 0
    /\ dt = 0
    /\ running = FALSE
    /\ current_state_name = "MENU"
    /\ current_state = states["MENU"]
    /\ flags = [o \in Objects |-> BaseState_init]
    /\ session = GameplayState_init
    /\ calls = <<>>
    /\ delivered = <<>>
    /\ quit_seen = FALSE
    /\ \E score \in AssignedScores :
          world = [game_factory(<<100, 100>>, 0, <<>>) EXCEPT !.score = score]
    /\ wlast = "game_factory"
    /\ random_state = NotFollowed

\* game.update_score(dt): the call returns for every dt
UpdateScoreAny ==
    /\ WorldBuilt
    /\ ticks < MaxScoreCalls
    /\ \E d \in AnyScoreDTs :
          /\ dt' = d
          /\ world' = update_score(world, d)
    /\ wlast' = "update_score"
    /\ ticks' = ticks + 1
    /\ UNCHANGED <<pc, running, current_state_name, current_state, flags,
                   session, calls, delivered, quit_seen, random_state>>

NextAnyScore == SetThrust \/ UpdateScoreAny

SpecAnyScore == InitAnyScore /\ [][NextAnyScore]_vars

----------------------------------------------------------------------------
(* A Player under manual control, as src/tests/test_player.py drives it:   *)
(* _manual_control set, so update skips get_input, and the test assigns    *)
(* angle, angular_velocity, velocity and the thrust intents itself         *)

\* the dt values passed to update, in milliseconds: 1/60 s and 0.05 s as in
\* the tests, zero and a negative dt
ManualDTs == {-17, 0, 17, 50}

\* player.left_thrust, player.right_thrust as the tests assign them
ManualThrusts == { <<0, 0>>, <<SCALE, 0>>, <<0, SCALE>>, <<SCALE, SCALE>>,
                   <<SCALE, SCALE \div 2>> }

\* player.angle as the tests assign it
ManualAngles == {0, 180 * SCALE * SCALE, 359 * SCALE * SCALE}

\* player.angular_velocity as the tests assign it, <<thousandths, sub>>:
\* 0, 45 and 120 degrees per second, and -1e-21 degrees per second
ManualSpins == { <<0, 0>>, <<45000, 0>>, <<120000, 0>>, <<0, -1>> }

\* player.velocity as the tests assign it
ManualVelocities == { <<0, 0>>, <<100000, 50000>> }

\* setUp's Player((400, 300), ...) with the attributes a test assigns
ManualPlayer(angle, spin, velocity) ==
    [Player_init(<<400 * SCALE, 300 * SCALE>>) EXCEPT
        !.angle = angle,
        !.angular_velocity = spin[1],
        !.angular_velocity_sub = spin[2],
        !.velocity = velocity]

\* player.left_thrust = ...; player.right_thrust = ...
set_intents(p, thrust) ==
    [p EXCEPT !.left_thrust = thrust[1], !.right_thrust = thrust[2]]

InitManual ==
    /\ pc = "manual"
    /\ ticks = 0
    /\ dt = 0
    /\ running = TRUE
    /\ current_state_name = "GAMEPLAY"
    /\ current_state = states["GAMEPLAY"]
    /\ flags = [o \in Objects |-> BaseState_init]
    /\ \E angle \in ManualAngles, spin \in ManualSpins, velocity \in ManualVelocities :
          session = [GameplayState_init EXCEPT
                        !.player = <<ManualPlayer(angle, spin, velocity)>>]
    /\ calls = <<>>
    /\ delivered = <<>>
    /\ quit_seen = FALSE
    /\ world = NoWorld
    /\ wlast = "none"
    /\ random_state = NotFollowed

\* the intents assigned, then player.update(dt)
ManualUpdate ==
    /\ pc = "manual"
    /\ ticks < MaxManualSteps
    /\ \E thrust \in ManualThrusts, d \in ManualDTs :
          /\ dt' = d
          /\ session' = [session EXCEPT
                !.player = <<Player_physics(set_intents(@[1], thrust), d)>>]
    /\ ticks' = ticks + 1
    /\ UNCHANGED <<pc, running, current_state_name, current_state, flags,
                   calls, delivered, quit_seen, world, wlast, random_state>>

NextManual == ManualUpdate

SpecManual == InitManual /\ [][NextManual]_vars

----------------------------------------------------------------------------
(* A Player constructed under a settings.MASS of any sign: __init__ stores *)
(* the constant as it finds it                                             *)

\* settings.MASS as shipped, zero, and negative
ConfigMasses == {MASS, 0, -MASS}

\* Player(PLAYER_START_POS, groups) has returned
InitConfig ==
    /\ pc = "config"
    /\ ticks = 0
    /\ dt = 0
    /\ running = TRUE
    /\ current_state_name = "GAMEPLAY"
    /\ current_state = states["GAMEPLAY"]
    /\ flags = [o \in Objects |-> BaseState_init]
    /\ \E mass \in ConfigMasses :
          session = [GameplayState_init EXCEPT
                        !.player = <<Player_configured(PLAYER_START_POS, mass)>>]
    /\ calls = <<>>
    /\ delivered = <<>>
    /\ quit_seen = FALSE
    /\ world = NoWorld
    /\ wlast = "none"
    /\ random_state = NotFollowed

\* player.update(dt) returning
ConfigUpdate ==
    /\ pc = "config"
    /\ ticks < MaxPlayerSteps
    /\ session.player[1].mass # 0
    /\ InRange(session.player[1])
    /\ \E keys \in AllKeyStates, d \in DTs :
          /\ dt' = d
          /\ session' = [session EXCEPT !.player = <<Player_update(@[1], d, keys)>>]
    /\ ticks' = ticks + 1
    /\ UNCHANGED <<pc, running, current_state_name, current_state, flags,
                   calls, delivered, quit_seen, world, wlast, random_state>>

\* player.update(dt) raising ZeroDivisionError, which nothing catches
ConfigUpdateRaises ==
    /\ pc = "config"
    /\ ticks < MaxPlayerSteps
    /\ session.player[1].mass = 0
    /\ \E keys \in AllKeyStates, d \in DTs :
          /\ dt' = d
          /\ session' = [session EXCEPT
                            !.player = <<Player_update_raising(@[1], d, keys)>>]
    /\ ticks' = ticks + 1
    /\ pc' = "ZeroDivisionError"
    /\ UNCHANGED <<running, current_state_name, current_state, flags,
                   calls, delivered, quit_seen, world, wlast, random_state>>

NextConfig == ConfigUpdate \/ ConfigUpdateRaises

SpecConfig == InitConfig /\ [][NextConfig]_vars

----------------------------------------------------------------------------
(* Spawning: a GameplayState started and updated with no key held, the     *)
(* positions drawn from the ends of random.randint's range as well         *)

AllSpawnPoints == SpawnPoints \cup SpawnCorners

\* a GameplayState constructed and not yet started
InitSpawn ==
    /\ pc = "spawn"
    /\ ticks = 0
    /\ dt = 0
    /\ running = TRUE
    /\ current_state_name = "GAMEPLAY"
    /\ current_state = states["GAMEPLAY"]
    /\ flags = [o \in Objects |-> BaseState_init]
    /\ session = GameplayState_init
    /\ calls = <<>>
    /\ delivered = <<>>
    /\ quit_seen = FALSE
    /\ world = NoWorld
    /\ wlast = "none"
    /\ random_state = NotFollowed

SpawnVars == <<pc, running, current_state_name, current_state, flags,
               calls, delivered, quit_seen, world, wlast, random_state>>

\* GameplayState.startup()
SpawnStartup ==
    /\ pc = "spawn"
    /\ session.player = <<>>
    /\ \E draws \in [1..INITIAL_BOTTLES -> AllSpawnPoints] :
          session' = GameplayState_startup(session, draws)
    /\ UNCHANGED <<ticks, dt>>
    /\ UNCHANGED SpawnVars

\* GameplayState.update(dt)
SpawnUpdate ==
    /\ pc = "spawn"
    /\ session.player # <<>>
    /\ ticks < MaxSpawnTicks
    /\ \E d \in DTs, pt \in AllSpawnPoints :
          /\ dt' = d
          /\ session' = GameplayState_update(session, d, <<FALSE, FALSE>>, pt)
    /\ ticks' = ticks + 1
    /\ UNCHANGED SpawnVars

NextSpawn == SpawnStartup \/ SpawnUpdate

SpecSpawn == InitSpawn /\ [][NextSpawn]_vars

----------------------------------------------------------------------------
(* Seeded spawning: the random module followed.  Python's generator is the *)
(* Mersenne Twister; the model follows a linear congruential generator,    *)
(* which shares what the spawners rely on: seed(S) sets the state from S   *)
(* alone, and a draw and the state after it are functions of the state.    *)

\* random.seed(S)
random_seed(S) == S % 65537

\* the generator's state after one draw
random_next(st) == (st * 75 + 74) % 65537

\* random.randint(lo, hi): the value drawn and the state left
randint(st, lo, hi) ==
    [ value |-> lo + (random_next(st) % (hi - lo + 1)), state |-> random_next(st) ]

\* x = random.randint(..); y = random.randint(..)
RandomPosition(st, xr, yr) ==
    LET x == randint(st, xr.lo, xr.hi)
        y == randint(x.state, yr.lo, yr.hi)
    IN [ pos |-> <<x.value, y.value>>, state |-> y.state ]

\* for _ in range(n): one position after the other
RECURSIVE RandomPositions(_, _, _, _)
RandomPositions(st, n, xr, yr) ==
    IF n = 0 THEN [ positions |-> <<>>, state |-> st ]
    ELSE LET p == RandomPosition(st, xr, yr)
             rest == RandomPositions(p.state, n - 1, xr, yr)
         IN [ positions |-> <<p.pos>> \o rest.positions, state |-> rest.state ]

\* the arguments of the two random.randint calls of game_factory
factory_x_range == [lo |-> SPAWN_MARGIN, hi |-> WORLD_W - SPAWN_MARGIN]
factory_y_range == [lo |-> SPAWN_MARGIN, hi |-> WORLD_H - SPAWN_MARGIN]

\* the bottles game_factory places when it is given no positions
FACTORY_BOTTLES == 5

\* game_factory taking the stream as it finds it, whatever the seed
game_factory_seed_ignored(st, seed) == st

\* game_factory: if seed is not None: random.seed(seed)
game_factory_seed(st, seed) == IF seed = <<>> THEN st ELSE random_seed(seed[1])

\* game_factory(seed=seed, bottle_positions=None): the GameWorld built and
\* the generator's state afterwards
game_factory_random(st, seed) ==
    LET r == RandomPositions(game_factory_seed(st, seed), FACTORY_BOTTLES,
                             factory_x_range, factory_y_range)
    IN [ world |-> game_factory(<<WORLD_W \div 2, WORLD_H \div 2>>, 0, r.positions),
         state |-> r.state ]

\* GameplayState.spawn_bottle drawing its position from the generator
spawn_bottle_random(s, st) ==
    LET r == RandomPosition(st, spawn_x_range, spawn_y_range)
    IN [ session |-> spawn_bottle(s, r.pos), state |-> r.state ]

\* the seeds the tests pass to game_factory, and no seed (None: <<>>)
Seeds == {<<42>>, <<1337>>, <<>>}

\* states the interpreter's own seeding may leave the generator in
EntropyStates == {7, 11}

\* [bottle.position for bottle in game.bottles]
BottlePositions(w) == [i \in 1..Len(w.bottles) |-> w.bottles[i].position]

InitSeed ==
    /\ pc = "seed"
    /\ ticks = 0
    /\ dt = 0
    /\ running = FALSE
    /\ current_state_name = "GAMEPLAY"
    /\ current_state = states["GAMEPLAY"]
    /\ flags = [o \in Objects |-> BaseState_init]
    /\ session = GameplayState_init
    /\ calls = <<>>
    /\ delivered = <<>>
    /\ quit_seen = FALSE
    /\ world = NoWorld
    /\ wlast = "none"
    /\ random_state \in EntropyStates

\* game = game_factory(seed=seed, bottle_positions=None); calls keeps the
\* seed and the bottle positions of every game built
SeedFactory ==
    /\ pc = "seed"
    /\ Len(calls) < MaxGames
    /\ \E seed \in Seeds :
          LET r == game_factory_random(random_state, seed)
          IN /\ world' = r.world
             /\ random_state' = r.state
             /\ calls' = Append(calls, [ op |-> "game_factory", seed |-> seed,
                                         positions |-> BottlePositions(r.world) ])
    /\ wlast' = "game_factory"
    /\ UNCHANGED <<pc, ticks, dt, running, current_state_name, current_state,
                   flags, session, delivered, quit_seen>>

\* GameplayState.spawn_bottle() in the same process
SeedSpawnBottle ==
    /\ pc = "seed"
    /\ session.spawned < MaxBottles
    /\ LET r == spawn_bottle_random(session, random_state)
       IN /\ session' = r.session
          /\ random_state' = r.state
    /\ UNCHANGED <<pc, ticks, dt, running, current_state_name, current_state,
                   flags, calls, delivered, quit_seen, world, wlast>>

NextSeed == SeedFactory \/ SeedSpawnBottle \/ Begin \/ CheckCollisions

SpecSeed == InitSeed /\ [][NextSeed]_vars

----------------------------------------------------------------------------
(* The spawn timer: a started GameplayState updated with frames of any     *)
(* length, no key held                                                     *)

\* what clock.tick(FPS) / 1000.0 may be, in milliseconds: zero, a frame,
\* just under the interval, the interval, and a stall of several intervals
TimerDTs == {0, 17, SPAWN_INTERVAL_MS - 10, SPAWN_INTERVAL_MS,
             2 * SPAWN_INTERVAL_MS + 1000}

\* GameplayState.startup() has returned
InitTimer ==
    /\ pc = "timer"
    /\ ticks = 0
    /\ dt = 0
    /\ running = TRUE
    /\ current_state_name = "GAMEPLAY"
    /\ current_state = states["GAMEPLAY"]
    /\ flags = [o \in Objects |-> BaseState_init]
    /\ \E draws \in InitialDraws :
          session = GameplayState_startup(GameplayState_init, draws)
    /\ calls = <<>>
    /\ delivered = <<>>
    /\ quit_seen = FALSE
    /\ world = NoWorld
    /\ wlast = "none"
    /\ random_state = NotFollowed

\* GameplayState.update(dt)
TimerUpdate ==
    /\ pc = "timer"
    /\ ticks < MaxTimerTicks
    /\ \E d \in TimerDTs, pt \in SpawnPoints :
          /\ dt' = d
          /\ session' = GameplayState_update(session, d, <<FALSE, FALSE>>, pt)
    /\ ticks' = ticks + 1
    /\ UNCHANGED SpawnVars

NextTimer == TimerUpdate

SpecTimer == InitTimer /\ [][NextTimer]_vars

----------------------------------------------------------------------------
(* The driver with states that set their flags themselves, as the test    *)
(* suite does on the current state before it calls the driver             *)

\* a name no state is registered under
UNREGISTERED == "CREDITS"

\* game.current_state.done = True; game.current_state.next_state_name = name
request_transition(f, name) == [f EXCEPT !.done = TRUE, !.next_state_name = name]

\* game.current_state.quit = True
request_quit(f) == [f EXCEPT !.quit = TRUE]

RequestTransition ==
    /\ pc = "events"
    /\ \E name \in DOMAIN states \cup {UNREGISTERED, None} :
          flags' = [flags EXCEPT ![current_state] = request_transition(@, name)]
    /\ UNCHANGED <<pc, ticks, dt, running, current_state_name, current_state,
                   session, calls, delivered, quit_seen, world, wlast, random_state>>

RequestQuit ==
    /\ pc = "events"
    /\ flags' = [flags EXCEPT ![current_state] = request_quit(@)]
    /\ UNCHANGED <<pc, ticks, dt, running, current_state_name, current_state,
                   session, calls, delivered, quit_seen, world, wlast, random_state>>

\* the run loop with regular frames and no thruster key held
DriverRunTick == RunTickWith({17})
DriverUpdate == UpdateWith({<<FALSE, FALSE>>})

NextDriver ==
    \/ DriverRunTick \/ HandleEvents \/ DriverUpdate \/ Draw \/ RunExit
    \/ RequestTransition \/ RequestQuit

SpecDriver == Init /\ [][NextDriver]_vars

\* the shipped game on its own, with regular frames and no thruster key
\* held: the flags are set by the states' handle_event only
NextShipped == DriverRunTick \/ HandleEvents \/ DriverUpdate \/ Draw \/ RunExit

SpecShipped == Init /\ [][NextShipped]_vars

\* either program: the game, or a GameWorld
SpecAll == (Init \/ InitWorld) /\ [][Next \/ NextWorld]_vars

----------------------------------------------------------------------------
(* Properties *)

\* a GameplayState session exists (startup has run at least once)
SessionStarted == session.player # <<>>

\* len(self.bottles): the bottles of the session not yet collected
Remaining == GroupLen(session.bottles)

\* the bottles of the GameWorld marked collected
WorldCollected == {i \in 1..Len(world.bottles) : world.bottles[i].collected}

\* C1: at every observation point of a session the bottles collected so far
\* (GameplayState counts them in score, GameWorld marks them collected) plus
\* the bottles remaining equal the bottles spawned so far in the session.
C1_Conservation ==
    /\ SessionStarted => session.score + Remaining = session.spawned
    /\ WorldBuilt =>
         Cardinality(WorldCollected) + world.bottles_remaining = Len(world.bottles)

\* a session in which a bottle was collected and a bottle was re-spawned
C1_Witness ==
    /\ SessionStarted
    /\ session.score > 0
    /\ session.spawned > INITIAL_BOTTLES

\* a call of the last event pass
Called(op, obj) ==
    \E i \in 1..Len(calls) : calls[i].op = op /\ calls[i].obj = obj

Delivered(ev, obj) ==
    \E i \in 1..Len(delivered) : delivered[i] = <<ev, obj>>

\* the input each state is left by: ENTER for MENU, ESCAPE for GAMEPLAY
DesignatedInput(name) == IF name = "MENU" THEN "RETURN" ELSE "ESCAPE"

\* a step of Game.handle_events
EventPass == pc = "events" /\ pc' = "update"

\* C2: the top-level current state changes only in an event pass that
\* delivered the active state's designated input to it.
C2_ChangeOnlyOnInput ==
    [][ current_state_name' # current_state_name =>
          \E i \in 1..Len(delivered') :
             delivered'[i] = <<DesignatedInput(current_state_name), current_state>> ]_vars

\* C3: finding done set and next_state_name registered, the driver calls
\* cleanup() on the outgoing state, makes the registered state current, and
\* calls startup on it with cleanup's payload and the outgoing state's name.
C3_TransitionProtocol ==
    [][ ( /\ EventPass
          /\ flags'[current_state].done
          /\ flags'[current_state].next_state_name \in DOMAIN states )
        => LET req == flags'[current_state].next_state_name
           IN /\ calls' = << Call("cleanup", current_state, None, None),
                             Call("startup", states[req], None, current_state_name) >>
              /\ current_state_name' = req
              /\ current_state' = states[req] ]_vars

\* a pass that took GAMEPLAY back to MENU
C3_Witness ==
    /\ pc = "update"
    /\ Len(calls) = 2
    /\ calls[1].op = "cleanup" /\ calls[1].obj = GameplayObj
    /\ calls[2].op = "startup" /\ calls[2].prev = "GAMEPLAY"
    /\ current_state_name = "MENU"

\* C4: a state that startup() has just made active has done = False and
\* next_state_name = None.
C4_FreshFlagsOnActivation ==
    \A i \in 1..Len(calls) :
       calls[i].op = "startup" =>
          /\ flags[calls[i].obj].done = FALSE
          /\ flags[calls[i].obj].next_state_name = None

\* C5: done with an unregistered next_state_name ends the application:
\* running becomes False, the current state and its name stay, and neither
\* cleanup() nor startup() is called.
C5_UnregisteredIsFatal ==
    [][ ( /\ EventPass
          /\ flags'[current_state].done
          /\ flags'[current_state].next_state_name \notin DOMAIN states )
        => /\ ~running'
           /\ current_state' = current_state
           /\ current_state_name' = current_state_name
           /\ calls' = <<>> ]_vars

\* GAMEPLAY asked for a state nobody registered, and the game stopped there
C5_Witness ==
    /\ pc = "update"
    /\ current_state_name = "GAMEPLAY"
    /\ flags[current_state].done
    /\ flags[current_state].next_state_name = UNREGISTERED
    /\ ~flags[current_state].quit
    /\ ~running
    /\ calls = <<>>

\* C6: once handle_events has seen quit set, no state transition is made in
\* that pass and no update(dt) runs afterwards.
C6_QuitHaltsAtOnce ==
    [][ /\ (EventPass /\ quit_seen') => calls' = <<>>
        /\ quit_seen => ~(pc = "update" /\ pc' = "draw") ]_vars

\* C7: ENTER delivered to MENU makes GAMEPLAY current by the end of the pass,
\* ESCAPE delivered to GAMEPLAY makes MENU current by the end of the pass.
C7_DesignatedInputSwitches ==
    [][ EventPass =>
          \A i \in 1..Len(delivered') :
             /\ delivered'[i] = <<"RETURN", MenuObj>> =>
                   current_state_name' = "GAMEPLAY" /\ current_state' = GameplayObj
             /\ delivered'[i] = <<"ESCAPE", GameplayObj>> =>
                   current_state_name' = "MENU" /\ current_state' = MenuObj ]_vars

\* ESCAPE ended a session in which bottles had been collected
C7_Witness ==
    /\ pc = "update"
    /\ Delivered("ESCAPE", GameplayObj)
    /\ current_state_name = "MENU"
    /\ session.score > 0
    /\ Remaining < INITIAL_BOTTLES

\* C8: every entry into GAMEPLAY leaves score 0, the spawn timer 0, exactly
\* 5 bottles, and a player at PLAYER_START_POS with zero velocity, heading
\* and angular velocity.
C8_FreshSessionOnEntry ==
    (pc = "update" /\ Called("startup", GameplayObj)) =>
       /\ session.score = 0
       /\ session.bottle_spawn_timer = 0
       /\ Remaining = 5
       /\ session.spawned = 5
       /\ Len(session.player) = 1
       /\ session.player[1].position = <<640 * SCALE, 360 * SCALE>>
       /\ session.player[1].velocity = <<0, 0>>
       /\ session.player[1].angle = 0
       /\ session.player[1].angular_velocity = 0

\* GAMEPLAY entered again, after a session that ESCAPE had ended
C8_Witness ==
    /\ pc = "update"
    /\ Called("startup", GameplayObj)
    /\ flags[GameplayObj].done

\* a step of GameplayState.update, of a GameWorld operation
SessionUpdate == pc = "update" /\ pc' = "draw" /\ current_state = GameplayObj

\* C9: remainingCount never increases from one observation point to the
\* next and is never below 0.
C9_RemainingNeverIncreases ==
    [][ /\ SessionUpdate =>
             GroupLen(session'.bottles) <= Remaining /\ GroupLen(session'.bottles) >= 0
        /\ WorldBuilt =>
             /\ world'.bottles_remaining <= world.bottles_remaining
             /\ world'.bottles_remaining >= 0 ]_vars

\* C9 as amended: remainingCount is never below 0; a collision check never
\* increases it; GameplayState.update increases it only when its periodic
\* re-spawn fires, and then by one.
C9_RemainingGrowsOnlyByRespawn ==
    [][ /\ SessionUpdate =>
             /\ GroupLen(session'.bottles) >= 0
             /\ GroupLen(session'.bottles) <= Remaining + 1
             /\ GroupLen(session'.bottles) > Remaining =>
                   /\ session.bottle_spawn_timer + dt >= SPAWN_INTERVAL_MS
                   /\ session'.spawned = session.spawned + 1
        /\ WorldBuilt =>
             /\ world'.bottles_remaining <= world.bottles_remaining
             /\ world'.bottles_remaining >= 0 ]_vars

\* a re-spawn has raised the number of bottles above the initial batch
C9_Witness ==
    /\ pc = "draw"
    /\ Remaining > INITIAL_BOTTLES

\* C10: check_collisions called again with nothing changed in between
\* changes no collected flag, not bottles_remaining, not the session state.
C10_IdempotentCollection ==
    [][ (wlast = "check_collisions" /\ wlast' = "check_collisions") =>
           world' = world ]_vars

\* after a check, the player still overlaps a bottle the check collected
C10_Witness ==
    /\ wlast = "check_collisions"
    /\ \E i \in 1..Len(world.bottles) :
          /\ world.bottles[i].collected
          /\ colliderect(world.player.rect, world.bottles[i].rect)

\* a step of GameWorld.check_collisions
CheckStep == WorldBuilt /\ wlast' = "check_collisions"

\* C11: after every check_collisions call that returns with
\* bottles_remaining = 0 the session state is END_SCREEN, a session created
\* with no bottles included.
C11_ZeroRemainingEndsRound ==
    (wlast = "check_collisions" /\ world.bottles_remaining = 0)
       => world.state = "END_SCREEN"

\* C12: the session state only advances START_SCREEN -> PLAYING -> END_SCREEN:
\* PLAYING is entered from START_SCREEN by a begin event, END_SCREEN from
\* PLAYING when bottles_remaining reaches 0, and END_SCREEN is never left.
C12_StateOnlyAdvances ==
    [][ (WorldBuilt /\ world'.state # world.state) =>
          \/ /\ world.state = "START_SCREEN"
             /\ world'.state = "PLAYING"
             /\ wlast' = "begin"
          \/ /\ world.state = "PLAYING"
             /\ world'.state = "END_SCREEN"
             /\ world'.bottles_remaining = 0 ]_vars

\* the bottles of the GameWorld not collected whose rect overlaps the player's
WorldOverlapping ==
    {i \in 1..Len(world.bottles) :
        ~world.bottles[i].collected
        /\ colliderect(world.player.rect, world.bottles[i].rect)}

\* the bottles of the session group a player rect overlaps
SessionOverlapping(rect, b) ==
    SumCounts(b, {pt \in DOMAIN b : colliderect(rect, Bottle_rect(pt))})

\* C13: one collision check collects every uncollected bottle overlapping the
\* vehicle at the time of the call, and the remaining count drops by exactly
\* their number (GameWorld.check_collisions; in GameplayState.update the
\* check comes after the player has moved and before the periodic re-spawn).
C13_EveryOverlapProcessed ==
    [][ /\ CheckStep =>
             /\ \A i \in WorldOverlapping : world'.bottles[i].collected
             /\ \A i \in 1..Len(world.bottles) :
                   (i \notin WorldOverlapping) =>
                      world'.bottles[i].collected = world.bottles[i].collected
             /\ world'.bottles_remaining =
                   world.bottles_remaining - Cardinality(WorldOverlapping)
        /\ SessionUpdate =>
             LET n == SessionOverlapping(session'.player[1].rect, session.bottles)
             IN /\ session'.score = session.score + n
                /\ GroupLen(session'.bottles) =
                      Remaining - n + (session'.spawned - session.spawned) ]_vars

\* one check has just collected two bottles at once
C13_Witness ==
    /\ wlast = "check_collisions"
    /\ Cardinality(WorldCollected) >= 2
    /\ world.bottles_remaining = Len(world.bottles) - Cardinality(WorldCollected)
    /\ \A i \in WorldCollected : colliderect(world.player.rect, world.bottles[i].rect)

\* a step of GameWorld.update_score(dt'), and the thrusters active in it
ScoreStep == WorldBuilt /\ wlast' = "update_score"

ActiveThrusters ==
    (IF world.player.left_thrust_active THEN 1 ELSE 0)
    + (IF world.player.right_thrust_active THEN 1 ELSE 0)

\* C14: update_score(dt), dt >= 0, adds dt to the score once for each active
\* thruster: 2*dt with both, dt with one, 0 with neither.
C14_ScorePerActiveThruster ==
    [][ ScoreStep => world'.score = world.score + ActiveThrusters * dt' ]_vars

\* left only for 0.3 s, none for 0.2 s, both for 0.5 s: the score is 1.3
C14_Witness ==
    /\ wlast = "update_score"
    /\ dt = 500
    /\ ActiveThrusters = 2
    /\ world.score = 1300

\* C15: over update_score(dt) calls with dt >= 0 and any thruster flags the
\* score never decreases.
C15_ScoreNeverDecreases ==
    [][ WorldBuilt => world'.score >= world.score ]_vars

\* a call that left a positive score as it was: no thruster, or dt = 0
C15_Witness ==
    /\ wlast = "update_score"
    /\ world.score > 0
    /\ (ActiveThrusters = 0 \/ dt = 0)

\* C16: the score accrues only from thruster-active time: a gameplay tick
\* with neither thruster active leaves the score unchanged, and a collision
\* check does not change the score.
C16_ScoreOnlyFromThrust ==
    [][ /\ ( /\ SessionUpdate
             /\ session'.player[1].left_thrust = 0
             /\ session'.player[1].right_thrust = 0 )
           => session'.score = session.score
        /\ CheckStep => world'.score = world.score
        /\ (ScoreStep /\ ActiveThrusters = 0) => world'.score = world.score ]_vars

\* a step of MockPlayer.update(dt', world_bounds), and what its drag and
\* position update alone produce
MockUpdateStep == WorldBuilt /\ wlast' = "update"

Integrated == MockIntegrate(world.player, dt')

\* the vehicle of the game lies within the screen, the vehicle of a
\* GameWorld within the world bounds inset by half its rect
PlayerInWorld(p) ==
    /\ p.position[1] >= 0 /\ p.position[1] <= SCREEN_WIDTH * SCALE
    /\ p.position[2] >= 0 /\ p.position[2] <= SCREEN_HEIGHT * SCALE

MockInWorld(p, bounds) ==
    \A i \in 1..2 :
       /\ p.position[i] >= AxisMin(p, bounds, i)
       /\ p.position[i] <= AxisMax(p, bounds, i)

\* a step of Player.update(dt')
PlayerStep == pc = "player" /\ ticks' = ticks + 1

\* C17: after every update the vehicle's position lies within the world
\* bounds, whatever the thrust inputs and the velocity (the game's Player
\* within the screen, a GameWorld's MockPlayer within the world bounds inset
\* by half its rect), and the velocity component of a clamped axis is 0.
C17_VehicleStaysInBounds ==
    [][ /\ PlayerStep => PlayerInWorld(session'.player[1])
        /\ MockUpdateStep =>
             /\ MockInWorld(world'.player, world.world_bounds)
             /\ \A i \in 1..2 :
                   ~MockInWorld(Integrated, world.world_bounds)
                   /\ ( \/ Integrated.position[i] < AxisMin(Integrated, world.world_bounds, i)
                        \/ Integrated.position[i] > AxisMax(Integrated, world.world_bounds, i) )
                   => world'.player.velocity[i] = 0 ]_vars

\* C18: the clamp acts on each axis independently: an axis whose integrated
\* position exceeds the bounds gets the boundary-adjusted position and
\* velocity 0, and an axis that does not keeps the position and velocity
\* integration produced, whatever happens on the other axis.
C18_ClampPerAxis ==
    [][ MockUpdateStep =>
          \A i \in 1..2 :
             LET q  == Integrated
                 lo == AxisMin(q, world.world_bounds, i)
                 hi == AxisMax(q, world.world_bounds, i)
             IN IF q.position[i] < lo
                THEN world'.player.position[i] = lo /\ world'.player.velocity[i] = 0
                ELSE IF q.position[i] > hi
                THEN world'.player.position[i] = hi /\ world'.player.velocity[i] = 0
                ELSE /\ world'.player.position[i] = q.position[i]
                     /\ world'.player.velocity[i] = q.velocity[i] ]_vars

\* the left wall was hit while the vehicle kept moving down
C18_Witness ==
    /\ wlast = "update"
    /\ world.player.position[1] = AxisMin(world.player, world.world_bounds, 1)
    /\ world.player.velocity[1] = 0
    /\ world.player.velocity[2] > 0
    /\ world.player.position[2] > AxisMin(world.player, world.world_bounds, 2)
    /\ world.player.position[2] < AxisMax(world.player, world.world_bounds, 2)

\* C19: each update(dt) of a GAMEPLAY session adds dt to the spawn
\* accumulator; when it reaches or exceeds the interval (2.0 s) exactly one
\* bottle is spawned and the accumulator is reset to 0, otherwise no bottle
\* is spawned and the accumulator keeps its increased value.
C19_PeriodicSpawn ==
    [][ SessionUpdate =>
          LET t == session.bottle_spawn_timer + dt
          IN IF t >= SPAWN_INTERVAL_MS
             THEN /\ session'.spawned = session.spawned + 1
                  /\ session'.bottle_spawn_timer = 0
             ELSE /\ session'.spawned = session.spawned
                  /\ session'.bottle_spawn_timer = t ]_vars

\* the accumulator, at 17 ms after a first frame, went past the interval in
\* a long frame: one bottle more, accumulator 0
C19_Witness ==
    /\ pc = "draw"
    /\ ticks = 2
    /\ dt = 2000
    /\ session.spawned = INITIAL_BOTTLES + 1
    /\ session.bottle_spawn_timer = 0
    /\ session.player[1].position # PLAYER_START_POS

\* the screen as a rect
ScreenRect == Rect(0, 0, SCREEN_WIDTH, SCREEN_HEIGHT)

\* rect a lies entirely inside rect b
RectInside(a, b) ==
    /\ a.x >= b.x
    /\ a.y >= b.y
    /\ a.x + a.w <= b.x + b.w
    /\ a.y + a.h <= b.y + b.h

\* C20: every spawned bottle (initial batch and periodic re-spawn) has its
\* position inside [50, width - 50] x [50, height - 50], and so its rect
\* lies entirely inside the world bounds.
C20_SpawnInsideMargins ==
    \A pt \in DOMAIN session.bottles :
       session.bottles[pt] > 0 =>
          /\ pt[1] >= 50 /\ pt[1] <= SCREEN_WIDTH - 50
          /\ pt[2] >= 50 /\ pt[2] <= SCREEN_HEIGHT - 50
          /\ RectInside(Bottle_rect(pt), ScreenRect)

\* bottles stand at the least and at the greatest position that can be
\* drawn, one of them re-spawned
C20_Witness ==
    /\ session.bottles[<<spawn_x_range.lo, spawn_y_range.lo>>] > 0
    /\ session.bottles[<<spawn_x_range.hi, spawn_y_range.hi>>] > 0
    /\ session.spawned > INITIAL_BOTTLES

\* a step of a spawner: game_factory building a GameWorld, or spawn_bottle
SpawnerStep ==
    \/ wlast' = "game_factory" /\ Len(calls') = Len(calls) + 1
    \/ session'.spawned = session.spawned + 1

\* games i and j of the log were built with the same seed
SameSeed(i, j) ==
    /\ calls[i].seed # <<>>
    /\ calls[i].seed = calls[j].seed

\* C21: two game worlds built by game_factory with the same seed hold their
\* bottles at the same positions, in the same order, whatever was drawn from
\* the generator in between; and the generator's state changes only in a
\* step of a spawner (game_factory, spawn_bottle), never in another
\* operation of the session
C21_SeededSpawningIsDeterministic ==
    /\ [](\A i, j \in 1..Len(calls) :
            SameSeed(i, j) => calls[i].positions = calls[j].positions)
    /\ [][random_state' # random_state => SpawnerStep]_vars

\* two games built with seed 42, a spawn_bottle and a game without a seed
\* having drawn from the generator between them, and a session operation
\* applied to the second
C21_Witness ==
    /\ Len(calls) = 3
    /\ calls[1].seed = <<42>> /\ calls[2].seed = <<>> /\ calls[3].seed = <<42>>
    /\ calls[1].positions # calls[2].positions
    /\ session.spawned > 0
    /\ wlast = "check_collisions"

\* the player before and after a step of Player.update
PlayerBefore == session.player[1]
PlayerAfter == session'.player[1]

\* C22: Player.update(dt) with dt <= 0 is a no-op: position, velocity,
\* acceleration, heading, angular velocity and the thrust intents are after
\* the call what they were before it.
C22_NonPositiveDtIsNoOp ==
    [][PlayerStep /\ dt' <= 0 =>
          /\ PlayerAfter.position = PlayerBefore.position
          /\ PlayerAfter.velocity = PlayerBefore.velocity
          /\ PlayerAfter.acceleration = PlayerBefore.acceleration
          /\ PlayerAfter.angle = PlayerBefore.angle
          /\ PlayerAfter.angular_velocity = PlayerBefore.angular_velocity
          /\ PlayerAfter.left_thrust = PlayerBefore.left_thrust
          /\ PlayerAfter.right_thrust = PlayerBefore.right_thrust]_vars

\* a step of Player.update(dt') under manual control
ManualStep == pc = "manual" /\ ticks' = ticks + 1

\* C23: update(dt = 0) leaves position, velocity, heading and angular
\* velocity exactly as they were, whatever the thrust intents, the velocity
\* and the angular velocity, from any state earlier updates lead to.
C23_ZeroDeltaStability ==
    [][(PlayerStep \/ ManualStep) /\ dt' = 0 =>
          /\ PlayerAfter.position = PlayerBefore.position
          /\ PlayerAfter.velocity = PlayerBefore.velocity
          /\ PlayerAfter.angle = PlayerBefore.angle
          /\ PlayerAfter.angular_velocity = PlayerBefore.angular_velocity
          /\ PlayerAfter.angular_velocity_sub = PlayerBefore.angular_velocity_sub]_vars

\* C24: after every Player.update, for any prior heading, angular velocity,
\* thrust intents and dt, the heading is in the half-open range [0, 360).
C24_HeadingWrapped ==
    [][PlayerStep \/ ManualStep =>
          PlayerAfter.angle >= 0 /\ PlayerAfter.angle < FULL_TURN]_vars

\* the heading change of a step, less whole turns, in [0, FULL_TURN)
HeadingGain == (PlayerAfter.angle - PlayerBefore.angle) % FULL_TURN

\* an update with dt > 0 of a player that is not turning
UpdateFromNoSpin ==
    /\ PlayerStep \/ ManualStep
    /\ dt' > 0
    /\ PlayerBefore.angular_velocity = 0
    /\ PlayerBefore.angular_velocity_sub = 0

\* the turn of the step: the new angular velocity times dt, less whole turns
StepTurn == (PlayerAfter.angular_velocity * dt') % FULL_TURN

\* C25: from zero angular velocity, one update with dt > 0 and left-only
\* thrust has positive torque and leaves a positive angular velocity and a
\* heading increased by that velocity times dt (modulo the wrap);
\* right-only thrust has negative torque and leaves a negative angular
\* velocity and a heading decreased by its magnitude times dt; equal left
\* and right thrust has zero torque and leaves the heading where it was.
C25_TorqueSign ==
    [][UpdateFromNoSpin =>
         /\ (PlayerAfter.left_thrust > 0 /\ PlayerAfter.right_thrust = 0) =>
               /\ Player_torque(PlayerAfter) > 0
               /\ PlayerAfter.angular_velocity > 0
               /\ HeadingGain > 0 /\ HeadingGain = StepTurn
         /\ (PlayerAfter.left_thrust = 0 /\ PlayerAfter.right_thrust > 0) =>
               /\ Player_torque(PlayerAfter) < 0
               /\ PlayerAfter.angular_velocity < 0
               /\ HeadingGain > 0 /\ HeadingGain = StepTurn
         /\ PlayerAfter.left_thrust = PlayerAfter.right_thrust =>
               /\ Player_torque(PlayerAfter) = 0
               /\ HeadingGain = 0]_vars

\* one update of 0.05 s with left-only thrust from heading 180 and no spin:
\* angular velocity 0.1 degrees per second, heading 180.005; then one with
\* right-only thrust from heading 0 and no spin, the heading wrapping below
\* 360
C25_Witness ==
    /\ pc = "manual" /\ ticks = 1 /\ dt = 50
    /\ \/ /\ session.player[1].left_thrust = SCALE
          /\ session.player[1].right_thrust = 0
          /\ session.player[1].angular_velocity = 100
          /\ session.player[1].angle = 180 * SCALE * SCALE + 5000
       \/ /\ session.player[1].left_thrust = 0
          /\ session.player[1].right_thrust = SCALE
          /\ session.player[1].angular_velocity = -100
          /\ session.player[1].angle = FULL_TURN - 5000

\* C26: a collected flag is one-way.  No operation on a GameWorld clears the
\* collected flag of a bottle, and collect() on a collected bottle returns
\* False and leaves the bottle as it is; in GameplayState a bottle removed
\* from the group stays out: after an update the group holds, at every
\* point, at most the bottles there that the player did not touch plus the
\* bottles spawned in that update, and the count of collected bottles does
\* not go down.
C26_CollectedIsOneWay ==
    /\ [](WorldBuilt =>
            \A i \in 1..Len(world.bottles) :
               world.bottles[i].collected =>
                  /\ collect(world.bottles[i]).result = FALSE
                  /\ collect(world.bottles[i]).bottle = world.bottles[i])
    /\ [][ /\ WorldBuilt =>
               \A i \in 1..Len(world.bottles) :
                  world.bottles[i].collected =>
                     /\ i \in 1..Len(world'.bottles)
                     /\ world'.bottles[i].collected
          /\ SessionUpdate =>
               /\ session'.score >= session.score
               /\ \A pt \in DOMAIN session.bottles :
                     session'.bottles[pt] <=
                        (IF colliderect(session'.player[1].rect, Bottle_rect(pt))
                         THEN 0 ELSE session.bottles[pt])
                        + (session'.spawned - session.spawned) ]_vars

\* a GameWorld bottle collected by an earlier check, the player since moved
\* off it and another check made
C26_Witness ==
    /\ wlast = "check_collisions"
    /\ \E i \in 1..Len(world.bottles) :
          /\ world.bottles[i].collected
          /\ ~colliderect(world.player.rect, world.bottles[i].rect)

\* a step of Player.update entered on a Player of any configuration
ConfigStep == pc = "config" /\ ticks' = ticks + 1

\* C27: a vehicle with mass zero or negative is never constructed, so no
\* update ever runs, and no division by the mass is attempted, with
\* mass <= 0.
C27_InvalidMassRejected ==
    /\ [](SessionStarted => session.player[1].mass > 0)
    /\ [][ConfigStep => PlayerBefore.mass > 0]_vars

\* a step in which flip_state switches the current state
TransitionStep == current_state' # current_state

\* this tick's update (physics, collision and score) has run: Game.run
\* stands between self.update(dt) and self.draw()
PhysicsDone == pc = "draw"

\* C28: within a tick the state-transition check comes after input
\* handling, physics integration, boundary resolution and collision/score,
\* so a transition is made with that tick's update already run.
C28_TransitionCheckAfterPhysics ==
    [][TransitionStep => PhysicsDone]_vars

\* C29: current_state is always the object registered under
\* current_state_name; the events of a pass are handed to that state only;
\* and while the GameplayState is not the current state, before and after a
\* step, its session data (score, bottles, player, spawn timer) does not
\* change, nor do the flags of any state that is not current.
C29_OnlyActiveStateMutated ==
    /\ [](current_state = states[current_state_name])
    /\ [][ /\ EventPass =>
               \A i \in 1..Len(delivered') : delivered'[i][2] = current_state
          /\ (current_state # GameplayObj /\ current_state' # GameplayObj) =>
               session' = session
          /\ \A o \in Objects :
               (o # current_state /\ o # current_state') => flags'[o] = flags[o] ]_vars

\* the menu's update has run in a tick while a left gameplay session holds
\* a score and bottles
C29_Witness ==
    /\ pc = "draw"
    /\ current_state = MenuObj
    /\ SessionStarted
    /\ session.score > 0
    /\ Remaining > 0

\* the acceleration of a step whose thrust points along the heading of p:
\* (direction * total_thrust - velocity * speed * drag) / mass, with the
\* intents and the velocity the step started from
AccelerationAlong(p) ==
    LET total_thrust == (PlayerAfter.left_thrust + PlayerAfter.right_thrust) * MAX_THRUST
        v == PlayerBefore.velocity
        force(i) == MulFix(Player_direction(p)[i], total_thrust)
                    - QuoT(MulFix(v[i], Magnitude(v)) * LINEAR_DRAG_TENTHS, 10)
    IN <<DivT(force(1), PlayerAfter.mass), DivT(force(2), PlayerAfter.mass)>>

\* C30: Player.update keeps the step order.  The new angular velocity is the
\* old one multiplied by (1 - angular_drag * dt) and then increased by
\* torque * dt / mass, and the acceleration of the tick is that of a thrust
\* along the heading the tick started with, not the heading it ends with.
C30_StepOrder ==
    [][PlayerStep \/ ManualStep =>
         /\ PlayerAfter.angular_velocity =
               MulDiv(PlayerBefore.angular_velocity,
                      10000 - ANGULAR_DRAG_TENTHS * dt', 10000)
               + DivT(Player_torque(PlayerAfter) * dt', PlayerAfter.mass * SCALE)
         /\ PlayerAfter.acceleration = AccelerationAlong(PlayerBefore)]_vars

\* an update of 0.05 s with left-only thrust from rest at heading 0 and 120
\* degrees per second: drag and torque have both acted on the angular
\* velocity (120 * 0.965 + 0.1), the heading has moved by 5.795 degrees,
\* and the acceleration is the 4 px/s^2 of a thrust along heading 0
C30_Witness ==
    /\ pc = "manual" /\ ticks = 1 /\ dt = 50
    /\ session.player[1].left_thrust = SCALE
    /\ session.player[1].right_thrust = 0
    /\ session.player[1].angular_velocity = 115900
    /\ session.player[1].angle = 5795000
    /\ session.player[1].acceleration = <<4000, 0>>

\* a step of Player.update(dt') with both thrust intents 0 during the update
CoastingStep ==
    /\ PlayerStep \/ ManualStep
    /\ PlayerAfter.left_thrust = 0
    /\ PlayerAfter.right_thrust = 0

\* C31: with both thrust intents 0 and a positive angular velocity, an update
\* with dt > 0 leaves the angular velocity strictly smaller than before and
\* still greater than 0.
C31_AngularDragDecays ==
    [][CoastingStep /\ dt' > 0 /\ PlayerBefore.angular_velocity > 0 =>
          /\ PlayerAfter.angular_velocity < PlayerBefore.angular_velocity
          /\ PlayerAfter.angular_velocity > 0]_vars

\* C32: with both thrust intents 0 and a non-zero velocity, an update with
\* dt > 0 reduces the speed and keeps the velocity pointing the same way: no
\* component changes sign, for every speed and every dt the game loop
\* supplies. (A reduction below a thousandth of a pixel per second is not
\* visible at the model's resolution, so the speed is required not to grow.)
C32_LinearDragSlows ==
    [][CoastingStep /\ dt' > 0 /\ PlayerBefore.velocity # <<0, 0>> =>
          /\ Magnitude(PlayerAfter.velocity) <= Magnitude(PlayerBefore.velocity)
          /\ \A i \in 1..2 :
                Sgn(PlayerAfter.velocity[i]) = Sgn(PlayerBefore.velocity[i])]_vars

\* C33: update_score called with a negative dt does not decrease the score:
\* the call raises an error, or it leaves the score greater than or equal
\* to its value before the call. (update_score has no raise: every call
\* returns, as a step of ScoreStep.)
C33_NegativeDtKeepsScore ==
    [][ScoreStep /\ dt' < 0 => world'.score >= world.score]_vars

\* C34: a collision check that ends with bottles_remaining > 0 leaves the
\* session state unchanged; in particular a PLAYING session stays PLAYING
\* after collecting a bottle that is not the last one.
C34_StateKeptWhileBottlesRemain ==
    [][CheckStep /\ world'.bottles_remaining > 0 =>
          world'.state = world.state]_vars

\* a PLAYING session after a check with a bottle collected under the player
\* and another one left
C34_Witness ==
    /\ wlast = "check_collisions"
    /\ world.state = "PLAYING"
    /\ world.bottles_remaining = 1
    /\ Len(world.bottles) = 2
    /\ \E i \in WorldCollected :
          colliderect(world.player.rect, world.bottles[i].rect)

\* Scenario B: the vehicle of half-width 20 at (30, 300) with velocity
\* (-100, 50) in the 800x600 world, about to be updated with dt = 0.1
ScenarioB ==
    /\ world.world_bounds = Rect(0, 0, 800, 600)
    /\ world.player.rect.w \div 2 = 20
    /\ world.player.position = <<30 * SCALE, 300 * SCALE>>
    /\ world.player.velocity = <<-100 * SCALE, 50 * SCALE>>
    /\ dt' = 100

\* C35: Scenario B, after update(dt=0.1) and the boundary clamp, has
\* position.x = 20, velocity.x = 0 and velocity.y = 50: the y velocity is
\* exactly what it was before the tick.
C35_ScenarioB ==
    [][MockUpdateStep /\ ScenarioB =>
          /\ world'.player.position[1] = 20 * SCALE
          /\ world'.player.velocity[1] = 0
          /\ world'.player.velocity[2] = 50 * SCALE]_vars

\* the events of a queue that handle_events passes to a state (a window QUIT
\* is handled by the Game itself), each paired with the object obj
PassedTo(evs, obj) ==
    LET passed == SelectSeq(evs, LAMBDA ev : ev # "QUIT")
    IN [i \in 1..Len(passed) |-> <<passed[i], obj>>]

\* the calls of one operation in a call record
CallsOf(cs, op) == SelectSeq(cs, LAMBDA c : c.op = op)

\* C36: one handle_events pass performs at most one state transition: every
\* event of the pass that goes to a state goes to the state that was current
\* when the pass began, the events after the one that requested the
\* transition included, and flip_state runs at most once, after all events
\* were delivered: at most one cleanup, of the outgoing state, followed by at
\* most one startup, of the state current after the pass.
C36_OneTransitionPerPass ==
    pc = "events" =>
       \A evs \in EventLists :
          \A draws \in IF EntersGameplay(PassStart, evs) THEN InitialDraws ELSE {<<>>} :
             LET g == handle_events(PassStart, evs, draws)
             IN /\ g.delivered = PassedTo(evs, current_state)
                /\ Len(CallsOf(g.calls, "cleanup")) <= 1
                /\ Len(CallsOf(g.calls, "startup")) <= 1
                /\ \/ g.calls = <<>> /\ g.current_state = current_state
                   \/ /\ Len(g.calls) = 2
                      /\ g.calls[1].op = "cleanup" /\ g.calls[1].obj = current_state
                      /\ g.calls[2].op = "startup" /\ g.calls[2].obj = g.current_state
                      /\ g.current_state = states[g.current_state_name]

\* a pass in MENU with ENTER and then ESCAPE queued: both went to the menu,
\* the session was started once and GAMEPLAY is current
C36_Witness ==
    /\ pc = "update"
    /\ delivered = << <<"RETURN", MenuObj>>, <<"ESCAPE", MenuObj>> >>
    /\ current_state = GameplayObj
    /\ Len(calls) = 2
    /\ calls[2].op = "startup" /\ calls[2].obj = GameplayObj
    /\ ~flags[GameplayObj].done

\* the events of a queue
Queued(evs) == {evs[i] : i \in 1..Len(evs)}

\* C37: in the shipped game (state table {MENU, GAMEPLAY}) every reachable
\* state satisfies: a state whose done flag is True has a registered
\* next_state_name, and no state has quit set; hence the invalid-transition
\* branch of flip_state is never taken, and running becomes False only in an
\* event pass that handled a window QUIT event.
C37_ShippedFlagsValid ==
    /\ [](/\ \A o \in Objects :
               /\ flags[o].done => flags[o].next_state_name \in DOMAIN states
               /\ ~flags[o].quit
          /\ ~quit_seen
          /\ (pc = "events" /\ running) =>
                \A evs \in EventLists :
                   \A draws \in IF EntersGameplay(PassStart, evs)
                                THEN InitialDraws ELSE {<<>>} :
                      ~handle_events(PassStart, evs, draws).running
                         => "QUIT" \in Queued(evs))
    /\ [][running' # running => pc = "events" /\ pc' = "update" /\ ~running']_vars

\* the loop left after a window QUIT, with GAMEPLAY current and the menu's
\* done flag still set from the transition
C37_Witness ==
    /\ pc = "exit"
    /\ ~running
    /\ current_state = GameplayObj
    /\ flags[MenuObj].done
    /\ flags[MenuObj].next_state_name = "GAMEPLAY"

\* a step of GameplayState.update(dt') on the started session
TimerStep == pc = "timer" /\ ticks' = ticks + 1

\* C38: after every GameplayState.update with dt >= 0 the spawn accumulator
\* lies in [0, bottle_spawn_interval); a single update spawns at most one
\* bottle however large dt is, and the time accumulated beyond the interval
\* is discarded by the reset, not carried into the next interval.
C38_SpawnAccumulatorRange ==
    /\ [](pc = "timer" =>
             /\ session.bottle_spawn_timer >= 0
             /\ session.bottle_spawn_timer < SPAWN_INTERVAL_MS)
    /\ [][TimerStep /\ dt' >= 0 =>
             /\ session'.spawned \in {session.spawned, session.spawned + 1}
             /\ session.bottle_spawn_timer + dt' >= SPAWN_INTERVAL_MS =>
                   /\ session'.spawned = session.spawned + 1
                   /\ session'.bottle_spawn_timer = 0
             /\ session.bottle_spawn_timer + dt' < SPAWN_INTERVAL_MS =>
                   /\ session'.spawned = session.spawned
                   /\ session'.bottle_spawn_timer = session.bottle_spawn_timer + dt']_vars

\* a second update with a stall of 5 s, no bottle spawned by the first: one
\* bottle more, the accumulator at 0 and the time beyond the interval gone
C38_Witness ==
    /\ pc = "timer"
    /\ ticks = 2
    /\ dt = 2 * SPAWN_INTERVAL_MS + 1000
    /\ session.spawned = INITIAL_BOTTLES + 1
    /\ session.bottle_spawn_timer = 0
====
